---- MODULE Spec2Model ----
(***************************************************************************)
(* A model of the UNILAG assistant (Rashotech/unilag-ai-chatbot).          *)
(*                                                                         *)
(* The module holds several specifications over one set of variables, one  *)
(* per subsystem; each leaves the variables of the other subsystems at     *)
(* their initial values:                                                   *)
(*   SpecPipeline  the orchestration pipeline of EnhancedLangChainService  *)
(*   SpecWeb       the login and rate-message views                        *)
(*   SpecChat      the send-message and escalation views                   *)
(*   SpecUpload    the synchronous document operations                     *)
(*   SpecTasks     the Celery tasks                                        *)
(*   SpecTermsSerial, SpecTermsRace   AcademicSession.save, Semester.save  *)
(*   SpecStudents, SpecStudentsRace   Student.save                         *)
(*   SpecDocs      the synchronous operations and the Celery tasks         *)
(*   SpecEnrolment first saves of students, one after another              *)
(*   SpecGrades    Result.save and Student.calculate_cgpa                  *)
(*   SpecChunks    TypesenseService.smart_chunk_text                       *)
(*   SpecReset     the reset_unilag_data command                           *)
(*   SpecIndex     TypesenseService.index_document on one document         *)
(***************************************************************************)
EXTENDS Integers, Sequences, FiniteSets, TLC

(***************************************************************************)
(* Text.  A Python str is a sequence of one-character strings, so that     *)
(* lower(), len() and the "in" substring test are computed as Python       *)
(* computes them.                                                          *)
(***************************************************************************)
UpperLetters ==
    <<"A","B","C","D","E","F","G","H","I","J","K","L","M",
      "N","O","P","Q","R","S","T","U","V","W","X","Y","Z">>

LowerLetters ==
    <<"a","b","c","d","e","f","g","h","i","j","k","l","m",
      "n","o","p","q","r","s","t","u","v","w","x","y","z">>

\* str.lower() on one character
LowerChar(c) ==
    IF \E i \in DOMAIN UpperLetters : UpperLetters[i] = c
    THEN LowerLetters[CHOOSE i \in DOMAIN UpperLetters : UpperLetters[i] = c]
    ELSE c

\* str.lower()
Lower(s) == [i \in DOMAIN s |-> LowerChar(s[i])]

\* the Python expression  p in s  on strings
Contains(s, p) ==
    \E i \in 1..(Len(s) - Len(p) + 1) : SubSeq(s, i, i + Len(p) - 1) = p

\* any(indicator in text for indicator in indicators)
AnyIn(indicators, text) ==
    \E k \in DOMAIN indicators : Contains(text, indicators[k])

\* n filler characters
Pad(n) == [i \in 1..n |-> "x"]

\* analyze_query: personal_indicators
personal_indicators ==
    << <<"m","y">>,
       <<"i">>,
       <<"m","e">>,
       <<"m","y"," ","c","g","p","a">>,
       <<"m","y"," ","r","e","s","u","l","t","s">>,
       <<"m","y"," ","c","o","u","r","s","e","s">>,
       <<"c","a","n"," ","i"," ","t","a","k","e">>,
       <<"a","m"," ","i"," ","e","l","i","g","i","b","l","e">>,
       <<"m","y"," ","p","r","o","f","i","l","e">>,
       <<"m","y"," ","g","r","a","d","e","s">>,
       <<"m","y"," ","l","e","v","e","l">>,
       <<"m","y"," ","d","e","p","a","r","t","m","e","n","t">>,
       <<"m","y"," ","s","t","a","t","u","s">> >>

\* analyze_query: course_indicators
course_indicators ==
    << <<"p","r","e","r","e","q","u","i","s","i","t","e">>,
       <<"c","a","n"," ","t","a","k","e">>,
       <<"e","l","i","g","i","b","l","e"," ","f","o","r">>,
       <<"r","e","q","u","i","r","e","m","e","n","t","s"," ","f","o","r">> >>

\* check_escalation: escalation_indicators
escalation_indicators ==
    << <<"I"," ","d","o","n","'","t"," ","h","a","v","e"," ","a","c","c","e","s","s">>,
       <<"c","o","n","t","a","c","t"," ","t","h","e">>,
       <<"s","p","e","a","k"," ","t","o">>,
       <<"v","i","s","i","t"," ","t","h","e">> >>

\* the fixed replies of the service
FallbackText ==
    <<"I","'","m"," ","h","a","v","i","n","g"," ","t","r","o","u","b","l","e"," ","p","r","o","c","e","s","s","i","n","g"," ","y","o","u","r"," ","r","e","q","u","e","s","t","."," ","P","l","e","a","s","e"," ","t","r","y"," ","r","e","p","h","r","a","s","i","n","g"," ","o","r"," ","c","o","n","t","a","c","t"," ","s","u","p","p","o","r","t",".">>

FoundHeader ==
    <<"H","e","r","e","'","s"," ","w","h","a","t"," ","I"," ","f","o","u","n","d",":","\n">>

ErrorText ==
    <<"I","'","m"," ","e","x","p","e","r","i","e","n","c","i","n","g"," ","t","e","c","h","n","i","c","a","l"," ","d","i","f","f","i","c","u","l","t","i","e","s","."," ","P","l","e","a","s","e"," ","t","r","y"," ","a","g","a","i","n",".">>

\* queries, answers and reply fragments the environment may supply
QueryCgpa ==
    <<"W","h","a","t"," ","i","s"," ","m","y"," ","C","G","P","A","?">>

QueryFees ==
    <<"s","c","h","o","o","l"," ","f","e","e","s">>

QueryCanTake ==
    <<"c","a","n"," ","t","a","k","e"," ","C","S","C"," ","2","0","1">>

AnswerText ==
    <<"R","e","g","i","s","t","r","a","t","i","o","n"," ","o","p","e","n","s"," ","i","n"," ","t","h","e"," ","f","i","r","s","t"," ","w","e","e","k"," ","o","f"," ","t","h","e"," ","s","e","s","s","i","o","n">>

TextNoAccess ==
    <<"I"," ","d","o","n","'","t"," ","h","a","v","e"," ","a","c","c","e","s","s">>

TextContactThe ==
    <<"P","l","e","a","s","e"," ","c","o","n","t","a","c","t"," ","t","h","e"," ","r","e","g","i","s","t","r","y">>

TextContactTheUpper ==
    <<"C","O","N","T","A","C","T"," ","T","H","E"," ","R","E","G","I","S","T","R","Y">>

TextSpeakTo ==
    <<"s","p","e","a","k"," ","t","o">>

TextVisitThe ==
    <<"v","i","s","i","t"," ","t","h","e">>

TextPlain ==
    <<"Y","o","u","r"," ","C","G","P","A">>

(***************************************************************************)
(* Bounds of the model.                                                    *)
(***************************************************************************)
\* the most tool calls one LLM reply asks for
MaxToolCalls == 2

(***************************************************************************)
(* State.                                                                  *)
(***************************************************************************)
VARIABLES
    \* ---- orchestration pipeline (enhanced_langchain_service.py) ----
    pc,          \* the graph node about to run, "idle" between invocations
    state,       \* the channels of ConversationState
    request,     \* the arguments of the current (or last) process_query call
    visited,     \* the node functions entered in this invocation, in order
    output,      \* what process_query returned last
    parallel,    \* the locals of the last parallel_execution call: the way it
                 \* took and what the services answered on that way
    service_calls,  \* the service calls of this invocation: how often
                 \* conversational_search was called and which tool
                 \* functions were run, in order
    \* ---- login and rating views (views/chatbot.py) ----
    session_user,  \* request.user of the browser session
    messages,      \* the Message table, a row's id being its index
    http,          \* the last request served and its response
    \* ---- chat and escalation views (views/chatbot.py) ----
    conversations, \* the Conversation table, a row's id being its index
    tickets,       \* the EscalationTicket table, in creation order
    \* ---- documents (document_service.py, admin.py, tasks.py) ----
    document,      \* the Document row, or an instance not saved yet
    tasks,         \* the Celery tasks sent, a task's id being its index
    last_index,    \* the latest index_document call: its content and result
    ret,           \* what the last document operation or task run returned
    deleting,      \* the delete_document call in progress: its position and
                   \* the deletes it has attempted, in order
    \* ---- AcademicSession / Semester rows (models.py) ----
    term_model,    \* the model class the table below belongs to
    term_rows,     \* the table: for each row id, absent, current or not current
    term_savers,   \* for each writer, the save() call it is in (or idle)
    term_saved,    \* the save() call that completed last
    \* ---- Student rows (models.py) ----
    students,        \* the student_id column of the Student table
    student_savers,  \* for each writer, the save() call it is in (or idle)
    student_saved,   \* the save() call that completed last
    \* ---- one Student's results and CGPA (models.py) ----
    student_results,         \* the Result rows of the student
    student,         \* the student's current_cgpa and total_credits_earned
    cgpa_returned,   \* what calculate_cgpa returned, if it ran last
    \* ---- smart_chunk_text (typesense_service.py) ----
    sentences,       \* the text handed to smart_chunk_text, split in sentences
    chunking,        \* whether the call has returned, and the chunks it returned
    \* ---- reset_unilag_data (management/commands/reset_unilag_data.py) ----
    db,              \* the rows of the academic tables, of Student and of User
    reset,           \* the last run of the command: its flag and how it ended
    \* ---- the search index (typesense_service.py) ----
    doc_text,        \* extracted_text of the document, split in sentences
    index_entries,   \* the documents of the Typesense collection
    indexed          \* the last index_document call: whether it ran and
                     \* what it returned

pipeVars == <<pc, state, request, visited, output, parallel, service_calls>>

webVars == <<session_user, messages, http>>

chatVars == <<conversations, tickets>>

docVars == <<document, tasks, last_index, ret>>

termVars == <<term_model, term_rows, term_savers, term_saved>>

studentVars == <<students, student_savers, student_saved>>

gradeVars == <<student_results, student, cgpa_returned>>

\* the state of the parts modelled further below
chunkVars == <<sentences, chunking>>

resetVars == <<db, reset>>

indexVars == <<doc_text, index_entries, indexed>>

lateVars == <<resetVars, indexVars>>

moreVars == <<gradeVars, chunkVars, lateVars>>

vars == <<pipeVars, webVars, chatVars, docVars, deleting, termVars, studentVars,
          moreVars>>

\* what the actions of one subsystem leave alone
notPipe == <<webVars, chatVars, docVars, deleting, termVars, studentVars, moreVars>>

notWeb == <<pipeVars, chatVars, docVars, deleting, termVars, studentVars, moreVars>>

notChat == <<pipeVars, session_user, docVars, deleting, termVars, studentVars, moreVars>>

notDocs == <<pipeVars, webVars, chatVars, deleting, termVars, studentVars, moreVars>>

notDelete == <<pipeVars, webVars, chatVars, tasks, last_index, termVars, studentVars, moreVars>>

notTerms == <<pipeVars, webVars, chatVars, docVars, deleting, studentVars, moreVars>>

notGrades ==
    <<pipeVars, webVars, chatVars, docVars, deleting, termVars, studentVars,
      chunkVars, lateVars>>

notChunks ==
    <<pipeVars, webVars, chatVars, docVars, deleting, termVars, studentVars,
      gradeVars, lateVars>>

notReset ==
    <<pipeVars, webVars, chatVars, docVars, deleting, termVars, studentVars,
      gradeVars, chunkVars, indexVars>>

notIndex ==
    <<pipeVars, webVars, chatVars, docVars, deleting, termVars, studentVars,
      gradeVars, chunkVars, resetVars>>

notStudents == <<pipeVars, webVars, chatVars, docVars, deleting, termVars, moreVars>>

(***************************************************************************)
(* The login and rate-message views.                                       *)
(***************************************************************************)
\* the most a rating sent to the rate-message endpoint can be
MaxRatingInput == 3

\* Python None
None == "None"

\* request.user of a session that is not logged in
NoUser == "AnonymousUser"

\* Message.rating is null
NoRating == 0

\* Message.RATING_CHOICES
ValidRatings == {1, 2}

\* The Student table with each row's linked user: a student who can log in
\* and one whose user account is inactive.
StudentTable ==
    [s \in {"190404001", "190404002"} |->
        IF s = "190404001"
        THEN [user |-> "user-1", password |-> "pw-1", user_active |-> TRUE,
              student_active |-> TRUE]
        ELSE [user |-> "user-2", password |-> "pw-2", user_active |-> FALSE,
              student_active |-> TRUE]]

\* the form fields a login POST may carry, stripped
LoginIds == DOMAIN StudentTable \cup {"", "000000000"}

LoginPasswords == {"", "pw-1", "pw-2", "wrong"}

NoHttp ==
    [view |-> "", user |-> NoUser, student_id |-> "", password |-> "",
     message_id |-> 0, rating |-> NoRating, conversation_id |-> None,
     session_conversation |-> 0, conversation |-> 0, ticket_id |-> 0,
     status |-> 0, flash |-> ""]

\* messages.error / messages.success of custom_login for a POST from a session
\* that is not logged in
LoginFlash(student_id, password) ==
    IF student_id = "" \/ password = ""
    THEN "Please provide both Matric Number and Password."
    ELSE IF student_id \notin DOMAIN StudentTable
    THEN "Invalid Credentials"
    ELSE IF ~StudentTable[student_id].user_active
            \/ ~StudentTable[student_id].student_active
    THEN "Your account is not active. Please contact administration."
    ELSE IF StudentTable[student_id].password = password
    THEN "Welcome back"
    ELSE "Invalid password. Please check your credentials."

\* custom_login, POST
CustomLogin ==
    /\ \E student_id \in LoginIds, password \in LoginPasswords :
        LET flash == LoginFlash(student_id, password)
            base == [NoHttp EXCEPT !.view = "custom_login",
                                   !.student_id = student_id,
                                   !.password = password]
        IN  IF session_user # NoUser
            THEN \* already authenticated: redirect('chat_interface')
                 /\ http' = [base EXCEPT !.status = 302]
                 /\ UNCHANGED session_user
            ELSE IF flash = "Welcome back"
            THEN /\ session_user' = StudentTable[student_id].user
                 /\ http' = [base EXCEPT !.status = 302, !.flash = flash]
            ELSE /\ http' = [base EXCEPT !.status = 200, !.flash = flash]
                 /\ UNCHANGED session_user
    /\ UNCHANGED <<messages, notWeb>>

\* custom_logout
CustomLogout ==
    /\ session_user' = NoUser
    /\ http' = [NoHttp EXCEPT !.view = "custom_logout", !.status = 302,
                              !.flash = "You have been logged out successfully."]
    /\ UNCHANGED <<messages, notWeb>>

\* the message ids a rate-message POST may carry: 0 stands for an absent
\* message_id, Len + 1 for the id of no row
MessageIdInputs == 0..(Len(messages) + 1)

\* the ratings a rate-message POST may carry: NoRating stands for an absent
\* rating
RatingInputs == {NoRating} \cup 1..MaxRatingInput

\* The first definition of rate_message in views/chatbot.py.  The second
\* definition below rebinds the name, so the URLconf never serves this one.
rate_message_shadowed(rows, message_id, rating) ==
    IF message_id = 0 \/ rating \notin ValidRatings
    THEN [messages |-> rows, status |-> 400]
    ELSE IF message_id \notin DOMAIN rows \/ rows[message_id].message_type # "bot"
    THEN [messages |-> rows, status |-> 500]
    ELSE [messages |-> [rows EXCEPT ![message_id].rating = rating],
          status |-> 200]

\* The second definition of rate_message: the view urls.py serves.
rate_message(rows, message_id, rating) ==
    IF message_id \notin DOMAIN rows
    THEN [messages |-> rows, status |-> 500]
    ELSE [messages |-> [rows EXCEPT ![message_id].rating = rating],
          status |-> 200]

RateMessage ==
    /\ \E message_id \in MessageIdInputs, rating \in RatingInputs :
        LET r == rate_message(messages, message_id, rating) IN
        /\ messages' = r.messages
        /\ http' = [NoHttp EXCEPT !.view = "rate_message",
                                  !.message_id = message_id,
                                  !.rating = rating,
                                  !.status = r.status]
    /\ UNCHANGED <<session_user, notWeb>>

\* one anonymous conversation holding a user message and the bot's reply
WebIdle ==
    /\ session_user = NoUser
    /\ messages = <<[conversation |-> 1, message_type |-> "user", rating |-> NoRating],
                    [conversation |-> 1, message_type |-> "bot", rating |-> NoRating]>>
    /\ http = NoHttp
    /\ conversations = <<[user |-> NoUser, session_id |-> None,
                          typesense_conversation_id |-> None]>>
    /\ tickets = <<>>


(***************************************************************************)
(* The chat and escalation views.                                          *)
(***************************************************************************)
\* the most rows the model lets the tables grow to
MaxConversations == 2

MaxMessages == 4

MaxTickets == 2

Users == {"user-1", "user-2"}

\* EscalationTicket.STATUS_CHOICES
TicketStatuses == {"new", "assigned", "in_progress", "resolved", "closed"}

\* request_escalation: status__in=['new', 'assigned', 'in_progress']
OpenStatusesNoInProgress == {"new", "assigned"}

OpenStatuses == {"new", "assigned", "in_progress"}

ChatEmpty ==
    /\ messages = <<>>
    /\ conversations = <<>>
    /\ tickets = <<>>

\* Conversation.objects.create(user=..., metadata={'typesense_conversation_id': None})
_create_new_conversation(user) ==
    [user |-> user, session_id |-> None, typesense_conversation_id |-> None]

\* Conversation.objects.get(session_id=conversation_id): the matching rows
BySessionId(conversation_id) ==
    {i \in DOMAIN conversations : conversations[i].session_id = conversation_id}

\* _get_or_create_conversation: "existing" with the row's id, "create", or
\* "error" when get() finds several rows (MultipleObjectsReturned)
_get_or_create_conversation(user, conversation_id) ==
    IF conversation_id \in {None, ""}
    THEN [kind |-> "create", id |-> 0]
    ELSE LET found == BySessionId(conversation_id) IN
         IF found = {} THEN [kind |-> "create", id |-> 0]
         ELSE IF Cardinality(found) > 1 THEN [kind |-> "error", id |-> 0]
         ELSE LET i == CHOOSE i \in found : TRUE IN
              IF user # NoUser /\ conversations[i].user # user
              THEN [kind |-> "create", id |-> 0]
              ELSE [kind |-> "existing", id |-> i]

\* the conversation ids the search engine has not issued yet
FreshIds == {"ts-1", "ts-2", "ts-3"} \ {conversations[i].session_id : i \in DOMAIN conversations}

\* What process_query may answer to send_message: success with the
\* conversation id it was given, an empty one, 'unknown' or one newly issued by
\* the search engine, with or without escalation_needed; or failure.
PipelineResults(conversation_id) ==
    {[success |-> TRUE, conversation_id |-> c, escalation_needed |-> e] :
        c \in {conversation_id, "", "unknown"}
              \cup (IF FreshIds = {} THEN {}
                    ELSE {CHOOSE f \in FreshIds : TRUE}),
        e \in BOOLEAN}
    \cup {[success |-> FALSE, conversation_id |-> conversation_id,
           escalation_needed |-> TRUE]}

\* _create_escalation_ticket
_create_escalation_ticket(conversation, priority) ==
    [conversation |-> conversation, status |-> "new", priority |-> priority]

\* the conversation_id a send-message POST may carry
ConversationIdInputs ==
    {None} \cup {conversations[i].session_id : i \in DOMAIN conversations}
           \cup {"ts-0"}

\* send_message, for a non-empty message
SendMessage ==
    /\ Len(messages) + 2 <= MaxMessages
    /\ Len(conversations) < MaxConversations
    /\ Len(tickets) < MaxTickets
    /\ \E user \in Users \cup {NoUser}, conversation_id \in ConversationIdInputs :
        LET got == _get_or_create_conversation(user, conversation_id)
            base == [NoHttp EXCEPT !.view = "send_message", !.user = user,
                                   !.conversation_id = conversation_id]
        IN
        IF got.kind = "error"
        THEN /\ http' = [base EXCEPT !.status = 500]
             /\ UNCHANGED <<messages, conversations, tickets>>
        ELSE
        LET rows == IF got.kind = "create"
                    THEN Append(conversations, _create_new_conversation(user))
                    ELSE conversations
            id == IF got.kind = "create" THEN Len(rows) ELSE got.id
            typesense_conversation_id == rows[id].typesense_conversation_id
            asked == IF conversation_id \in {None, ""}
                     THEN typesense_conversation_id ELSE conversation_id
        IN
        \E result \in PipelineResults(asked) :
            LET new_typesense_id == result.conversation_id IN
            /\ conversations' =
                 IF /\ result.success
                    /\ new_typesense_id \notin {None, ""}
                    /\ new_typesense_id # typesense_conversation_id
                 THEN [rows EXCEPT ![id].session_id = new_typesense_id,
                                   ![id].typesense_conversation_id = new_typesense_id]
                 ELSE rows
            /\ messages' = messages \o
                 <<[conversation |-> id, message_type |-> "user", rating |-> NoRating],
                   [conversation |-> id, message_type |-> "bot", rating |-> NoRating]>>
            /\ tickets' =
                 IF ~result.success
                 THEN Append(tickets, _create_escalation_ticket(id, "high"))
                 ELSE IF result.escalation_needed
                 THEN Append(tickets, _create_escalation_ticket(id, "medium"))
                 ELSE tickets
            /\ http' = [base EXCEPT
                          !.status = 200,
                          !.conversation = id,
                          !.conversation_id = IF result.success
                                              THEN new_typesense_id
                                              ELSE conversation_id]
    /\ UNCHANGED notChat

\* Conversation.objects.get(user=request.user): the matching rows
ByUser(user) == {i \in DOMAIN conversations : conversations[i].user = user}

\* chat_view: the page load.  get(user=...) raises DoesNotExist, which the
\* view catches, or MultipleObjectsReturned, which it does not.
ChatView ==
    /\ \E user \in Users \cup {NoUser} :
        LET base == [NoHttp EXCEPT !.view = "chat_view", !.user = user]
            owned == IF user = NoUser THEN {} ELSE ByUser(user)
        IN
        IF Cardinality(owned) > 1
        THEN /\ http' = [base EXCEPT !.status = 500]
             /\ UNCHANGED conversations
        ELSE IF owned # {}
        THEN /\ http' = [base EXCEPT !.status = 200,
                                     !.conversation = CHOOSE i \in owned : TRUE]
             /\ UNCHANGED conversations
        ELSE /\ Len(conversations) < MaxConversations
             /\ conversations' =
                  Append(conversations,
                         [user |-> user, session_id |-> None,
                          typesense_conversation_id |-> None])
             /\ http' = [base EXCEPT !.status = 200,
                                     !.conversation = Len(conversations')]
    /\ UNCHANGED <<messages, tickets, notChat>>

\* the tickets of a conversation in one of the given statuses
TicketsIn(conversation, statuses) ==
    {t \in DOMAIN tickets :
        tickets[t].conversation = conversation /\ tickets[t].status \in statuses}

\* the conversation ids a session may hold: 0 stands for a session without
\* one, Len + 1 for the id of no row
SessionConversations == 0..(Len(conversations) + 1)

AlreadyEscalated ==
    "Your request has already been escalated. A staff member will contact you soon."

NowEscalated ==
    "Your request has been escalated to our support team. Someone will contact you shortly."

\* request_escalation
RequestEscalation ==
    /\ \E conversation_id \in SessionConversations :
        LET base == [NoHttp EXCEPT !.view = "request_escalation",
                                   !.session_conversation = conversation_id]
            \* .first() under Meta.ordering = ['-created_at']
            existing == TicketsIn(conversation_id, OpenStatuses)
        IN
        IF conversation_id = 0
        THEN /\ http' = [base EXCEPT !.status = 404]
             /\ UNCHANGED tickets
        ELSE IF conversation_id \notin DOMAIN conversations
        THEN /\ http' = [base EXCEPT !.status = 500]
             /\ UNCHANGED tickets
        ELSE IF existing # {}
        THEN /\ http' = [base EXCEPT
                           !.status = 200,
                           !.conversation = conversation_id,
                           !.flash = AlreadyEscalated,
                           !.ticket_id = CHOOSE t \in existing :
                                             \A u \in existing : u <= t]
             /\ UNCHANGED tickets
        ELSE /\ Len(tickets) < MaxTickets
             /\ tickets' = Append(tickets,
                                  _create_escalation_ticket(conversation_id, "medium"))
             /\ http' = [base EXCEPT !.status = 200,
                                     !.conversation = conversation_id,
                                     !.flash = NowEscalated,
                                     !.ticket_id = Len(tickets')]
    /\ UNCHANGED <<messages, conversations, notChat>>

\* EscalationTicketAdmin: staff edit a ticket's status
AdminUpdateTicket ==
    /\ \E t \in DOMAIN tickets, status \in TicketStatuses :
        tickets' = [tickets EXCEPT ![t].status = status]
    /\ http' = [NoHttp EXCEPT !.view = "admin", !.status = 200]
    /\ UNCHANGED <<messages, conversations, notChat>>

(***************************************************************************)
(* The orchestration pipeline.                                             *)
(***************************************************************************)
MinResponseLength == 50

\* a user_context without the student_id key
NoStudentId == ""

StudentIds == {"190404001"}

UserContexts ==
    [authenticated : BOOLEAN, student_id : StudentIds \cup {NoStudentId}]

Queries == {QueryCgpa, QueryFees, QueryCanTake}

ToolNames == {"get_student_profile", "search_courses"}

\* one tool call of the LLM's reply and what MCPDatabaseService answers to it
ToolCalls == [name : ToolNames, success : BOOLEAN]

ToolCallSeqs == UNION {[1..n -> ToolCalls] : n \in 0..MaxToolCalls}

\* typesense_result = {}
EmptyResult ==
    [empty |-> TRUE, success |-> FALSE, has_conversation_id |-> FALSE,
     conversation_id |-> None, answer |-> <<>>, sources |-> <<>>]

\* what TypesenseService.conversational_search may return: the success
\* envelope, the failure envelope of _make_request (no conversation_id key),
\* or the envelope of its own except branch (conversation_id or 'unknown')
SearchResults(conversation_id) ==
    {[empty |-> FALSE, success |-> TRUE, has_conversation_id |-> TRUE,
      conversation_id |-> c, answer |-> a, sources |-> s] :
        c \in {"", "conv-1", "conv-2"}, a \in {<<>>, AnswerText},
        s \in {<<>>, <<"doc-1">>}}
    \cup
    {[empty |-> FALSE, success |-> FALSE, has_conversation_id |-> FALSE,
      conversation_id |-> None, answer |-> <<>>, sources |-> <<>>],
     [empty |-> FALSE, success |-> FALSE, has_conversation_id |-> TRUE,
      conversation_id |-> IF conversation_id \in {None, ""} THEN "unknown"
                          ELSE conversation_id,
      answer |-> <<>>, sources |-> <<>>]}

\* the texts the synthesis LLM call may answer with
Responses ==
    {<<>>, TextPlain, TextContactThe,
     Pad(MinResponseLength - 1), Pad(MinResponseLength)}
    \cup
    {t \o Pad(MinResponseLength) :
        t \in {TextNoAccess, TextContactThe, TextContactTheUpper,
               TextSpeakTo, TextVisitThe}}

\* ConversationState as process_query initialises it
InitialState(query, conversation_id, user_context) ==
    [query |-> query,
     conversation_id |-> conversation_id,
     user_context |-> user_context,
     is_authenticated |-> FALSE,
     typesense_result |-> EmptyResult,
     mcp_results |-> <<>>,
     final_response |-> <<>>,
     escalation_needed |-> FALSE,
     sources |-> <<>>,
     tools_used |-> <<>>,
     needs_tools |-> FALSE,
     needs_rag |-> TRUE]

\* The channel reducers of ConversationState: a node's returned dict is
\* written key by key; mcp_results, sources and tools_used are accumulated
\* with operator.add, typesense_result keeps the latest non-empty value, every
\* other key takes the returned value.
Reduce(channels, update) ==
    [update EXCEPT
        !.typesense_result = IF update.typesense_result.empty
                             THEN channels.typesense_result
                             ELSE update.typesense_result,
        !.mcp_results = channels.mcp_results \o update.mcp_results,
        !.sources = channels.sources \o update.sources,
        !.tools_used = channels.tools_used \o update.tools_used]

\* user_context.get("authenticated", False) and user_context.get("student_id")
IsAuthenticatedNoStudentCheck(user_context) == user_context.authenticated

IsAuthenticated(user_context) ==
    user_context.authenticated /\ user_context.student_id # NoStudentId

NeedsTools(query, is_authenticated) ==
    /\ is_authenticated
    /\ \/ AnyIn(personal_indicators, Lower(query))
       \/ AnyIn(course_indicators, Lower(query))

analyze_query(s) ==
    LET is_authenticated == IsAuthenticated(s.user_context) IN
    [s EXCEPT !.is_authenticated = is_authenticated,
              !.needs_tools = NeedsTools(s.query, is_authenticated),
              !.needs_rag = TRUE]

route_after_analysis(s) ==
    IF s.is_authenticated /\ s.needs_tools /\ s.needs_rag
    THEN "parallel_execution"
    ELSE IF s.needs_tools /\ s.is_authenticated
    THEN "execute_tools"
    ELSE IF s.needs_rag
    THEN "typesense_search"
    ELSE "synthesize_response"

\* typesense_rag_search with the search service answering result
typesense_rag_search(s, result) ==
    IF ~s.needs_rag THEN s
    ELSE [s EXCEPT
            !.typesense_result = result,
            !.conversation_id = IF result.has_conversation_id
                                THEN result.conversation_id
                                ELSE s.conversation_id,
            !.sources = result.sources]

\* the mcp_results entries of the executed calls
ToolResults(calls) ==
    [i \in DOMAIN calls |-> [tool |-> calls[i].name, success |-> calls[i].success]]

\* what llm_with_tools.invoke does: it throws, or replies with tool calls
LlmToolReplies ==
    {[raised |-> TRUE, calls |-> <<>>]}
    \cup {[raised |-> FALSE, calls |-> c] : c \in ToolCallSeqs}

\* what llm_base.invoke does in synthesis: it throws, or replies with a text
LlmReplies ==
    {[raised |-> TRUE, content |-> <<>>]}
    \cup {[raised |-> FALSE, content |-> t] : t \in Responses}

execute_tools(s, llm) ==
    IF ~s.needs_tools \/ ~s.is_authenticated THEN s
    ELSE IF s.user_context.student_id = NoStudentId THEN s
    ELSE IF llm.raised THEN s
    ELSE [s EXCEPT
            !.tools_used = [i \in DOMAIN llm.calls |-> llm.calls[i].name],
            !.mcp_results = ToolResults(llm.calls)]

\* one "- tool: data" line of the fallback listing (tool name and JSON data
\* stand as fixed text)
FoundLine == <<"\n", "-", " ", "t", "o", "o", "l", ":", " ", "{", "}">>

RECURSIVE FoundLines(_)
FoundLines(results) ==
    IF results = <<>> THEN <<>>
    ELSE (IF Head(results).success THEN FoundLine ELSE <<>>)
         \o FoundLines(Tail(results))

_create_fallback_response(s) ==
    IF s.typesense_result.success /\ s.typesense_result.answer # <<>>
    THEN s.typesense_result.answer
    ELSE IF s.mcp_results # <<>>
    THEN FoundHeader \o FoundLines(s.mcp_results)
    ELSE FallbackText

synthesize_response(s, llm) ==
    [s EXCEPT !.final_response = IF llm.raised
                                 THEN _create_fallback_response(s)
                                 ELSE llm.content,
              !.escalation_needed = FALSE]

\* the escalation_needed expression of check_escalation
EscalationNeeded(response, mcp_results) ==
    \/ AnyIn(escalation_indicators, Lower(response))
    \/ Len(response) < MinResponseLength
    \/ \E i \in DOMAIN mcp_results : ~mcp_results[i].success

check_escalation(s) ==
    [s EXCEPT !.escalation_needed =
                  EscalationNeeded(s.final_response, s.mcp_results)]

\* parallel_execution when both futures deliver: the node writes into the
\* state dict it was handed (tools_used and sources are extended in place)
ParallelMerged(s, llm, result) ==
    LET mcp_state == execute_tools(s, llm)
        rag_state == typesense_rag_search(s, result)
    IN  [s EXCEPT !.mcp_results = mcp_state.mcp_results,
                  !.typesense_result = rag_state.typesense_result,
                  !.tools_used = s.tools_used \o mcp_state.tools_used,
                  !.sources = s.sources \o rag_state.sources]

\* the channels after ParallelMerged extended their lists in place
ParallelChannels(s, merged) ==
    [s EXCEPT !.tools_used = merged.tools_used, !.sources = merged.sources]

\* the sequential fallback without its first step
ParallelFallbackSearchOnly(s, llm, result) == typesense_rag_search(s, result)

\* parallel_execution when a future raised or timed out: the sequential
\* fallback, with the services answering anew
ParallelFallback(s, llm, result) ==
    typesense_rag_search(execute_tools(s, llm), result)

\* the dict process_query returns after graph.invoke
SuccessOutput(s) ==
    [success |-> TRUE,
     response |-> s.final_response,
     conversation_id |-> s.conversation_id,
     escalation_needed |-> s.escalation_needed,
     tools_used |-> s.tools_used,
     sources |-> s.sources,
     mcp_data |-> s.mcp_results,
     authenticated |-> s.is_authenticated]

\* the dict of process_query's except branch (it has no tools_used, sources,
\* mcp_data or authenticated key: they stand empty here)
ErrorOutput(conversation_id) ==
    [success |-> FALSE,
     response |-> ErrorText,
     conversation_id |-> conversation_id,
     escalation_needed |-> TRUE,
     tools_used |-> <<>>,
     sources |-> <<>>,
     mcp_data |-> <<>>,
     authenticated |-> FALSE]

NoOutput ==
    [success |-> FALSE, response |-> <<>>, conversation_id |-> None,
     escalation_needed |-> FALSE, tools_used |-> <<>>, sources |-> <<>>,
     mcp_data |-> <<>>, authenticated |-> FALSE]

\* no service has been called in this invocation
NoCalls == [conversational_search |-> 0, tool_funcs |-> <<>>]

\* the tool.func calls of one execute_tools run: one for each tool call of
\* the model's reply, marked with the run that made it
ToolFuncs(run, s, llm) ==
    LET names == IF llm.raised THEN <<>> ELSE execute_tools(s, llm).tools_used
    IN  [i \in DOMAIN names |-> [run |-> run, tool_call |-> i, name |-> names[i]]]

\* one more call of TypesenseService.conversational_search
Searched(c) == [c EXCEPT !.conversational_search = @ + 1]

\* one more run of execute_tools
Executed(c, run, s, llm) == [c EXCEPT !.tool_funcs = @ \o ToolFuncs(run, s, llm)]

\* parallel_execution has not run in this invocation
NoParallel ==
    [path |-> "none", llm |-> [raised |-> FALSE, calls |-> <<>>],
     result |-> EmptyResult]

NoRequest ==
    [query |-> <<>>, conversation_id |-> None,
     user_context |-> [authenticated |-> FALSE, student_id |-> NoStudentId]]

IdleState == InitialState(<<>>, None, [authenticated |-> FALSE, student_id |-> NoStudentId])

\* what the pool's execute_tools did when parallel execution failed: it
\* raised before asking the model, or the model replied and execute_tools
\* ran the tool calls of the reply (possibly after the timeout).  What the
\* tools returned is dropped with the future, so only the calls differ
PoolReplies ==
    {r \in LlmToolReplies : \A i \in DOMAIN r.calls : r.calls[i].success}

\* ---- the steps of one process_query invocation ----

\* process_query up to graph.invoke
ProcessQuery ==
    /\ pc = "idle"
    /\ \E query \in Queries, conversation_id \in {None, "conv-1"},
          user_context \in UserContexts :
          /\ request' = [query |-> query, conversation_id |-> conversation_id,
                         user_context |-> user_context]
          /\ state' = InitialState(query, conversation_id, user_context)
    /\ pc' = "analyze_query"
    /\ visited' = <<>>
    /\ output' = NoOutput
    /\ parallel' = NoParallel
    /\ service_calls' = NoCalls
    /\ UNCHANGED notPipe

AnalyzeQuery ==
    /\ pc = "analyze_query"
    /\ state' = Reduce(state, analyze_query(state))
    /\ pc' = route_after_analysis(state')
    /\ visited' = Append(visited, "analyze_query")
    /\ UNCHANGED <<request, output, parallel, service_calls, notPipe>>

TypesenseSearch ==
    /\ pc = "typesense_search"
    /\ \E result \in SearchResults(state.conversation_id) :
          state' = Reduce(state, typesense_rag_search(state, result))
    /\ service_calls' = IF state.needs_rag THEN Searched(service_calls) ELSE service_calls
    /\ pc' = "synthesize_response"
    /\ visited' = Append(visited, "typesense_search")
    /\ UNCHANGED <<request, output, parallel, notPipe>>

ParallelExecution ==
    /\ pc = "parallel_execution"
    /\ visited' = visited \o <<"parallel_execution", "execute_tools", "typesense_search">>
    /\ UNCHANGED <<request, output, notPipe>>
    /\ \/ \* both futures deliver within the timeout
          \E llm \in LlmToolReplies, result \in SearchResults(state.conversation_id) :
             LET merged == ParallelMerged(state, llm, result) IN
             /\ state' = Reduce(ParallelChannels(state, merged), merged)
             /\ parallel' = [path |-> "merged", llm |-> llm, result |-> result]
             /\ service_calls' = Searched(Executed(service_calls, "pool", state, llm))
             /\ pc' = "synthesize_response"
       \/ \* a future raised or timed out: sequential fallback.  Both
          \* functions were submitted to the pool and the with block waits
          \* for its threads, so by the time the node returns the pool has
          \* called the search once and run the tools of its own reply
          \E llm \in LlmToolReplies, result \in SearchResults(state.conversation_id),
             pool \in PoolReplies :
             /\ state' = Reduce(state, ParallelFallback(state, llm, result))
             /\ parallel' = [path |-> "sequential", llm |-> llm, result |-> result]
             /\ service_calls' = Searched(Executed(Searched(Executed(service_calls, "pool", state, pool)),
                                           "sequential", state, llm))
             /\ pc' = "synthesize_response"
       \/ \* the fallback's execute_tools raises while binding the tools
          \E pool \in PoolReplies :
             /\ state' = state
             /\ parallel' = [NoParallel EXCEPT !.path = "raised"]
             /\ service_calls' = Searched(Executed(service_calls, "pool", state, pool))
             /\ pc' = "error"

SynthesizeResponse ==
    /\ pc = "synthesize_response"
    /\ \E llm \in LlmReplies :
          state' = Reduce(state, synthesize_response(state, llm))
    /\ pc' = "check_escalation"
    /\ visited' = Append(visited, "synthesize_response")
    /\ UNCHANGED <<request, output, parallel, service_calls, notPipe>>

CheckEscalation ==
    /\ pc = "check_escalation"
    /\ state' = Reduce(state, check_escalation(state))
    /\ pc' = "END"
    /\ visited' = Append(visited, "check_escalation")
    /\ UNCHANGED <<request, output, parallel, service_calls, notPipe>>

\* process_query after graph.invoke returned or raised; the graph state is
\* local to the invocation and is dropped
ProcessQueryReturn ==
    /\ pc \in {"END", "error"}
    /\ output' = IF pc = "END" THEN SuccessOutput(state)
                 ELSE ErrorOutput(request.conversation_id)
    /\ pc' = "idle"
    /\ state' = IdleState
    /\ UNCHANGED <<request, visited, parallel, service_calls, notPipe>>

PipelineIdle ==
    /\ pc = "idle"
    /\ state = IdleState
    /\ request = NoRequest
    /\ visited = <<>>
    /\ output = NoOutput
    /\ parallel = NoParallel
    /\ service_calls = NoCalls

(***************************************************************************)
(* Documents: the synchronous operations of DocumentProcessingService and  *)
(* DocumentAdmin, and the Celery tasks of tasks.py, on one Document row.   *)
(***************************************************************************)
\* the most task ids issued, and the highest index_version reached
MaxTasks == 2

MaxIndexVersion == 2

\* the most runs of one task id the model follows
MaxRuns == 5

\* @shared_task(bind=True, max_retries=...)
index_max_retries == 3

process_max_retries == 3

delete_max_retries == 2

\* Document.index_version default
FirstIndexVersion == 1

NoText == ""

\* what the extractor can return as content (stripped, never empty)
Texts == {"text-1"}

FirebasePath == "policy/handbook.pdf"

SourceUrl == "https://unilag.edu.ng/handbook"

\* str(e) of the storage, extractor and database errors
ErrorTexts == {"connection refused"}

\* a Document instance that has not been saved
NewDocument ==
    [exists |-> FALSE, processing_status |-> "pending", extracted_text |-> NoText,
     error_message |-> "", firebase_path |-> "",
     vector_indexed |-> FALSE, index_version |-> FirstIndexVersion]

\* the latest TypesenseService.index_document call: its content and result
NoIndexCall == [content |-> NoText, success |-> FALSE]

NoReturn == [op |-> "", status |-> ""]

\* no delete_document call in progress
NotDeleting == [pc |-> "idle", log |-> <<>>]

DocsEmpty ==
    /\ deleting = NotDeleting
    /\ document = NewDocument
    /\ tasks = <<>>
    /\ last_index = NoIndexCall
    /\ ret = NoReturn

\* TypesenseService.index_document: no chunks for an empty text, else the
\* backend's answer
index_document(doc, backend_ok) == doc.extracted_text # NoText /\ backend_ok

IndexCall(doc, backend_ok) ==
    [content |-> doc.extracted_text, success |-> index_document(doc, backend_ok)]

\* Model.save()
Save(doc) == [doc EXCEPT !.exists = TRUE]

(* ---- Celery ---- *)
TaskNames == {"index_document_task", "process_document_tasks",
              "delete_document_from_index_task"}

max_retries(name) ==
    IF name = "index_document_task" THEN index_max_retries
    ELSE IF name = "process_document_tasks" THEN process_max_retries
    ELSE delete_max_retries

RetryLevels == 0..index_max_retries

\* task.delay(...): a new task id, one message with retries = 0
NewTask(name, file_path, source_url) ==
    [name |-> name, file_path |-> file_path, source_url |-> source_url,
     pending |-> [r \in RetryLevels |-> IF r = 0 THEN 1 ELSE 0],
     runs |-> 0]

\* the worker takes one message of the task at retry level r
Taken(task, r) ==
    [task EXCEPT !.pending[r] = @ - 1, !.runs = @ + 1]

\* self.retry(): sends the message for retries + 1 and raises Retry, or
\* raises exc without sending when retries + 1 > max_retries
CanRetry(task, r) == r + 1 <= max_retries(task.name)

SelfRetry(task, r) ==
    IF CanRetry(task, r) THEN [task EXCEPT !.pending[r + 1] = @ + 1] ELSE task

\* the except Exception handler of index_document_task, entered at retry level r
IndexExceptHandler(task, r) ==
    IF r < max_retries(task.name) THEN SelfRetry(task, r) ELSE task

IndexFailedMessage == "Indexing failed after 3 retries: Indexing failed"

IndexRaisedMessage == "Indexing failed after 3 retries: connection refused"

\* index_document_task: the update made when index_document succeeded
IndexSucceededNoVersion(doc) == [doc EXCEPT !.vector_indexed = TRUE]

IndexSucceeded(doc) ==
    [doc EXCEPT !.vector_indexed = TRUE, !.index_version = @ + 1]

\* index_document_task; outcome is what the environment does to this run
IndexOutcomes == {"indexed", "index_failed", "raised"}

RunIndexDocumentTask ==
    /\ \E id \in DOMAIN tasks, r \in RetryLevels, outcome \in IndexOutcomes :
        /\ tasks[id].name = "index_document_task"
        /\ tasks[id].pending[r] > 0
        /\ tasks[id].runs < MaxRuns
        /\ LET task == Taken(tasks[id], r)
               base == [NoReturn EXCEPT !.op = "index_document_task"]
           IN
           IF ~document.exists
           THEN /\ tasks' = [tasks EXCEPT ![id] = task]
                /\ ret' = [base EXCEPT !.status = "error"]
                /\ UNCHANGED <<document, last_index>>
           ELSE IF document.extracted_text = NoText
           THEN /\ tasks' = [tasks EXCEPT ![id] = task]
                /\ ret' = [base EXCEPT !.status = "skipped"]
                /\ UNCHANGED <<document, last_index>>
           ELSE IF outcome = "raised"
           THEN \* TypesenseService() raises: the backend is unreachable
                /\ tasks' = [tasks EXCEPT ![id] = IndexExceptHandler(task, r)]
                /\ document' = IF r < index_max_retries THEN document
                               ELSE [document EXCEPT !.error_message = IndexRaisedMessage]
                /\ ret' = [base EXCEPT
                             !.status = IF r < index_max_retries THEN "retry" ELSE "failed"]
                /\ UNCHANGED last_index
           ELSE IF outcome = "indexed"
           THEN /\ document.index_version < MaxIndexVersion
                /\ last_index' = IndexCall(document, TRUE)
                /\ document' = IndexSucceeded(document)
                /\ tasks' = [tasks EXCEPT ![id] = task]
                /\ ret' = [base EXCEPT !.status = "success"]
           ELSE \* raise self.retry(countdown=60, exc=Exception("Indexing failed"))
                \* inside the try: what it raises reaches the except Exception
                \* handler, which retries again while retries < max_retries
                /\ last_index' = IndexCall(document, FALSE)
                /\ tasks' = [tasks EXCEPT ![id] =
                                IndexExceptHandler(SelfRetry(task, r), r)]
                /\ document' = IF r < index_max_retries THEN document
                               ELSE [document EXCEPT !.error_message = IndexFailedMessage]
                /\ ret' = [base EXCEPT
                             !.status = IF r < index_max_retries THEN "retry" ELSE "failed"]
    /\ UNCHANGED notDocs

\* process_document_tasks
ProcessOutcomes == {"extracted", "download_failed", "extract_failed",
                    "raised", "raised_at_delay"}

RunProcessDocumentTasks ==
    /\ \E id \in DOMAIN tasks, r \in RetryLevels, outcome \in ProcessOutcomes,
          content \in Texts, error \in ErrorTexts :
        /\ tasks[id].name = "process_document_tasks"
        /\ tasks[id].pending[r] > 0
        /\ tasks[id].runs < MaxRuns
        /\ LET task == Taken(tasks[id], r)
               base == [NoReturn EXCEPT !.op = "process_document_tasks"]
               file_path == task.file_path
               source_url == task.source_url
               \* success, result of the download and the extractor
               success == outcome = "extracted" /\ (file_path # "" \/ source_url # "")
               error_msg ==
                   IF file_path # "" /\ outcome = "download_failed"
                   THEN "Failed to download file from Firebase"
                   ELSE IF file_path = "" /\ source_url = ""
                   THEN "Unknown extraction error"
                   ELSE error
               raised == [document EXCEPT
                            !.processing_status = "failed",
                            !.error_message = "Processing failed: connection refused"]
           IN
           IF ~document.exists
           THEN /\ tasks' = [tasks EXCEPT ![id] = task]
                /\ ret' = [base EXCEPT !.status = "error"]
                /\ UNCHANGED document
           ELSE IF outcome \in {"raised", "raised_at_delay"}
           THEN /\ document' =
                     IF outcome = "raised" THEN raised
                     ELSE [raised EXCEPT !.extracted_text = content]
                /\ tasks' = [tasks EXCEPT ![id] =
                     IF r < process_max_retries THEN SelfRetry(task, r) ELSE task]
                /\ ret' = [base EXCEPT
                             !.status = IF r < process_max_retries
                                        THEN "retry" ELSE "failed"]
           ELSE IF success
           THEN /\ Len(tasks) < MaxTasks
                /\ document' = [document EXCEPT !.extracted_text = content,
                                                !.processing_status = "completed"]
                \* index_document_task.delay(document_id)
                /\ tasks' = Append([tasks EXCEPT ![id] = task],
                                   NewTask("index_document_task", "", ""))
                /\ ret' = [base EXCEPT !.status = "success"]
           ELSE /\ document' = [document EXCEPT !.error_message = error_msg,
                                                !.processing_status = "failed"]
                /\ tasks' = [tasks EXCEPT ![id] = task]
                /\ ret' = [base EXCEPT !.status = "failed"]
    /\ UNCHANGED <<last_index, notDocs>>

\* delete_document_from_index_task
DeleteOutcomes == {"deleted", "delete_failed", "raised"}

RunDeleteDocumentFromIndexTask ==
    /\ \E id \in DOMAIN tasks, r \in RetryLevels, outcome \in DeleteOutcomes :
        /\ tasks[id].name = "delete_document_from_index_task"
        /\ tasks[id].pending[r] > 0
        /\ tasks[id].runs < MaxRuns
        /\ LET task == Taken(tasks[id], r)
               base == [NoReturn EXCEPT !.op = "delete_document_from_index_task"]
               status == IF outcome = "deleted" THEN "success"
                         ELSE IF outcome = "delete_failed" THEN "failed"
                         ELSE IF r < delete_max_retries THEN "retry"
                         ELSE "failed"
           IN
           /\ tasks' = [tasks EXCEPT ![id] =
                IF outcome = "raised" /\ r < delete_max_retries
                THEN SelfRetry(task, r) ELSE task]
           /\ ret' = [base EXCEPT !.status = status]
    /\ UNCHANGED <<document, last_index, notDocs>>

\* a caller's task.delay(...): the admin actions and batch_reindex_documents_task
\* for the index task, any caller for the other two
Delay ==
    /\ Len(tasks) < MaxTasks
    /\ \E name \in TaskNames, file_path \in {"", FirebasePath} :
        /\ file_path # "" => name = "process_document_tasks"
        /\ tasks' = Append(tasks, NewTask(name, file_path, ""))
        /\ ret' = [NoReturn EXCEPT !.op = "delay", !.status = "queued"]
    /\ UNCHANGED <<document, last_index, notDocs>>

(* ---- DocumentProcessingService ---- *)
\* process_document_upload: the branch taken when the storage upload fails
UploadFailed(doc) ==
    [doc EXCEPT !.processing_status = "failed",
                !.error_message = "Firebase upload failed: connection refused"]

\* process_document_upload: the branch taken when the extractor reports failure
ExtractionFailedNoStatus(doc) ==
    [doc EXCEPT !.error_message = "Content extraction failed: connection refused"]

ExtractionFailed(doc) ==
    [doc EXCEPT !.processing_status = "failed",
                !.error_message = "Content extraction failed: connection refused"]

\* process_document_upload: the except Exception handler
UploadExcept(doc, error) ==
    [doc EXCEPT !.processing_status = "failed", !.error_message = error]

\* process_document_upload: the row after the try block ran to its end
UploadCompleted(doc, content, backend_ok) ==
    LET extracted == [doc EXCEPT !.extracted_text = content] IN
    [extracted EXCEPT
       !.vector_indexed = @ \/ index_document(extracted, backend_ok),
       !.processing_status = "completed"]

\* where process_document_upload can stop short of the extraction
UploadFailures == {"upload_failed", "extract_failed", "raised_at_upload",
                   "raised_at_read", "raised_in_handler"}

ProcessDocumentUpload ==
    /\ LET base == [NoReturn EXCEPT !.op = "process_document_upload"]
           \* document_instance.processing_status = 'processing'; save()
           started == Save([document EXCEPT !.processing_status = "processing"])
           stored == [started EXCEPT !.firebase_path = FirebasePath]
       IN
       \/ \E outcome \in UploadFailures, error \in ErrorTexts :
            /\ document' =
                 CASE outcome = "upload_failed" -> UploadFailed(started)
                   [] outcome = "extract_failed" -> ExtractionFailed(stored)
                   [] outcome = "raised_at_upload" -> UploadExcept(started, error)
                   [] outcome = "raised_at_read" -> UploadExcept(stored, error)
                   \* the handler's own save() raises: nothing is returned
                   [] outcome = "raised_in_handler" -> started
            /\ ret' = [base EXCEPT !.status = IF outcome = "raised_in_handler"
                                              THEN "raised" ELSE "failure"]
            /\ UNCHANGED last_index
       \/ \E content \in Texts, backend_ok \in BOOLEAN, saved \in BOOLEAN,
             error \in ErrorTexts :
            LET completed == UploadCompleted(stored, content, backend_ok) IN
            /\ last_index' = IndexCall(completed, backend_ok)
            \* the last save() may raise into the handler
            /\ document' = IF saved THEN completed ELSE UploadExcept(completed, error)
            /\ ret' = [base EXCEPT !.status = IF saved THEN "success" ELSE "failure"]
    /\ UNCHANGED <<tasks, notDocs>>

\* reprocess_document, on a saved document
ReprocessDocument ==
    /\ document.exists
    /\ LET base == [NoReturn EXCEPT !.op = "reprocess_document"] IN
       \/ \* no path, the download or the extractor fails, or an error is raised
          /\ ret' = [base EXCEPT !.status = "failure"]
          /\ UNCHANGED <<document, last_index>>
       \/ /\ document.firebase_path # ""
          /\ \E content \in Texts, backend_ok \in BOOLEAN :
               LET extracted == [document EXCEPT !.extracted_text = content] IN
               /\ document' = [extracted EXCEPT
                                 !.vector_indexed = index_document(extracted, backend_ok),
                                 !.processing_status = "completed"]
               /\ last_index' = IndexCall(extracted, backend_ok)
               /\ ret' = [base EXCEPT !.status = "success"]
    /\ UNCHANGED <<tasks, notDocs>>

(* ---- DocumentAdmin ---- *)
AdminFailures == {"upload_failed", "extract_failed", "raised"}

\* save_model.  The form is submitted with the row's own values in the
\* Content and Processing fieldsets, and possibly a file or a URL.
AdminSaveModel ==
    /\ LET base == [NoReturn EXCEPT !.op = "save_model"]
           \* super().save_model(request, obj, form, change)
           obj == Save(document)
           started == [obj EXCEPT !.processing_status = "processing"]
           stored == [started EXCEPT !.firebase_path = FirebasePath]
       IN
       \/ \* file_upload: the upload or the extraction fails, or an error is raised
          /\ \E outcome \in AdminFailures, error \in ErrorTexts :
               document' =
                 CASE outcome = "upload_failed" ->
                        [started EXCEPT !.error_message = error,
                                        !.processing_status = "failed"]
                   [] outcome = "extract_failed" ->
                        [stored EXCEPT !.error_message = error,
                                       !.processing_status = "failed"]
                   [] outcome = "raised" ->
                        [started EXCEPT
                           !.processing_status = "failed",
                           !.error_message = "Upload error: connection refused"]
          /\ ret' = [base EXCEPT !.status = "failed"]
          /\ UNCHANGED <<tasks, last_index>>
       \/ \* file_upload: extracted; search_service.index_document(obj); obj.save()
          /\ \E content \in Texts, backend_ok \in BOOLEAN :
               LET extracted == [stored EXCEPT !.extracted_text = content,
                                               !.processing_status = "completed"]
               IN /\ document' = extracted
                  /\ last_index' = IndexCall(extracted, backend_ok)
          /\ ret' = [base EXCEPT !.status = "completed"]
          /\ UNCHANGED tasks
       \/ \* source_url: process_document_tasks.delay(str(obj.id), source_url=source_url)
          /\ Len(tasks) < MaxTasks
          /\ document' = obj
          /\ tasks' = Append(tasks, NewTask("process_document_tasks", "", SourceUrl))
          /\ ret' = [base EXCEPT !.status = "queued"]
          /\ UNCHANGED last_index
       \/ \* neither a file nor a URL
          /\ document' = obj
          /\ ret' = [base EXCEPT !.status = "saved"]
          /\ UNCHANGED <<tasks, last_index>>
    /\ UNCHANGED notDocs

(* ---- DocumentProcessingService.delete_document, statement by statement ---- *)
\* one attempted delete and whether it succeeded
Attempt(call, ok) == [call |-> call, ok |-> ok]

\* where delete_document goes after the search-index delete: the failure is
\* logged and the row delete follows in either case
AfterIndexDeleteAbort(ok) == IF ok THEN "row" ELSE "idle"

AfterIndexDelete(ok) == "row"

\* if document_instance.firebase_path: firebase_service.delete_file(...)
DeleteFromStorage ==
    /\ deleting.pc = "idle"
    /\ document.exists
    /\ \E ok \in BOOLEAN :
        deleting' = [pc |-> "index",
                     log |-> IF document.firebase_path # ""
                             THEN <<Attempt("delete_file", ok)>> ELSE <<>>]
    /\ ret' = [NoReturn EXCEPT !.op = "delete_document", !.status = "running"]
    /\ UNCHANGED <<document, notDelete>>

\* vector_service.delete_document(document_instance.id), in its own try
DeleteFromIndex ==
    /\ deleting.pc = "index"
    /\ \E ok \in BOOLEAN :
        deleting' = [pc |-> AfterIndexDelete(ok),
                     log |-> Append(deleting.log, Attempt("delete_document", ok))]
    /\ UNCHANGED <<document, ret, notDelete>>

\* document_instance.delete(); return True, or the except handler's return
DeleteRow ==
    /\ deleting.pc = "row"
    /\ \E ok \in BOOLEAN :
        /\ deleting' = [pc |-> "idle",
                        log |-> Append(deleting.log, Attempt("delete", ok))]
        /\ document' = IF ok THEN NewDocument ELSE document
        /\ ret' = [NoReturn EXCEPT !.op = "delete_document",
                                   !.status = IF ok THEN "success" ELSE "failure"]
    /\ UNCHANGED notDelete

(***************************************************************************)
(* AcademicSession.save and Semester.save: the single-current rule.  The   *)
(* two classes have the same save(); term_model says which of them the     *)
(* table belongs to.                                                       *)
(***************************************************************************)
\* the most rows of the table
MaxRows == 3

RowIds == 1..MaxRows

TermModels == {"AcademicSession", "Semester"}

\* the threads or worker processes that may be inside save() at once
Writers == {"w1", "w2"}

NoRows == [id \in RowIds |-> "absent"]

RowStates == {"absent", "current", "not_current"}

\* the rows with is_current = True
CurrentRows(rows) == {id \in RowIds : rows[id] = "current"}

\* objects.filter(is_current=True).update(is_current=False)
ClearCurrentNone(rows) == rows

ClearCurrent(rows) ==
    [id \in RowIds |-> IF rows[id] = "current" THEN "not_current" ELSE rows[id]]

\* super().save(): insert or update the instance's own row
WriteRowAlwaysCurrent(rows, id, is_current) == [rows EXCEPT ![id] = "current"]

WriteRow(rows, id, is_current) ==
    [rows EXCEPT ![id] = IF is_current THEN "current" ELSE "not_current"]

NotSaving == [pc |-> "idle", id |-> 0, is_current |-> FALSE, overlapped |-> FALSE]

NoTermSaved == [id |-> 0, is_current |-> FALSE, cleared |-> 0]

TermsIdle ==
    /\ term_model = "AcademicSession"
    /\ term_rows = NoRows
    /\ term_savers = [w \in Writers |-> NotSaving]
    /\ term_saved = NoTermSaved

\* save() run from its first statement to its last with no other writer inside
SaveTerm ==
    /\ \E id \in RowIds, is_current \in BOOLEAN :
        /\ term_rows' = WriteRow(IF is_current THEN ClearCurrent(term_rows)
                                 ELSE term_rows, id, is_current)
        /\ term_saved' = [id |-> id, is_current |-> is_current,
                          cleared |-> IF is_current
                                      THEN Cardinality(CurrentRows(term_rows))
                                      ELSE 0]
    /\ UNCHANGED <<term_model, term_savers, notTerms>>

\* a writer inside save() has been overlapped once another writer has run a
\* statement of its own save() in between
Overlap(savers, w) ==
    [v \in Writers |->
        IF v # w /\ savers[v].pc = "write"
        THEN [savers[v] EXCEPT !.overlapped = TRUE] ELSE savers[v]]

\* save(), first statement: if self.is_current: ...update(is_current=False)
SaveTermClear(w) ==
    /\ term_savers[w].pc = "idle"
    /\ \E id \in RowIds, is_current \in BOOLEAN :
        /\ term_rows' = IF is_current THEN ClearCurrent(term_rows) ELSE term_rows
        /\ term_savers' = [Overlap(term_savers, w) EXCEPT
                             ![w] = [pc |-> "write", id |-> id,
                                     is_current |-> is_current, overlapped |-> FALSE]]
    /\ UNCHANGED <<term_model, term_saved, notTerms>>

\* save(), second statement: super().save(*args, **kwargs)
SaveTermWrite(w) ==
    /\ term_savers[w].pc = "write"
    /\ term_rows' = WriteRow(term_rows, term_savers[w].id, term_savers[w].is_current)
    /\ term_savers' = [Overlap(term_savers, w) EXCEPT ![w] = NotSaving]
    /\ term_saved' = [id |-> term_savers[w].id,
                      is_current |-> term_savers[w].is_current, cleared |-> 0]
    /\ UNCHANGED <<term_model, notTerms>>

(***************************************************************************)
(* Student.save: the generated student_id.  Strings are sequences of       *)
(* one-character strings, so that formatting, slicing, parsing and         *)
(* ordering are computed as the code and the database compute them.        *)
(***************************************************************************)
\* the most rows of the Student table
MaxStudents == 4

Digits == <<"0", "1", "2", "3", "4", "5", "6", "7", "8", "9">>

\* the characters of the ids in their collation order
Collation == Digits \o <<"/", "C", "E", "G", "N", "S">>

Rank(c) == CHOOSE i \in 1..Len(Collation) : Collation[i] = c

\* str(n)
RECURSIVE Decimal(_)
Decimal(n) ==
    IF n < 10 THEN <<Digits[n + 1]>>
    ELSE Decimal(n \div 10) \o <<Digits[(n % 10) + 1]>>

RECURSIVE ZeroPad(_, _)
ZeroPad(str, width) ==
    IF Len(str) >= width THEN str ELSE ZeroPad(<<"0">> \o str, width)

\* f"{n:03d}": at least three characters, never fewer, more when n > 999
Format03d(n) == ZeroPad(Decimal(n), 3)

\* int(str) for a string of digits
RECURSIVE ParseInt(_)
ParseInt(str) ==
    IF str = <<>> THEN 0
    ELSE ParseInt(SubSeq(str, 1, Len(str) - 1)) * 10 + (Rank(str[Len(str)]) - 1)

\* str[-3:]
LastThree(str) ==
    IF Len(str) <= 3 THEN str ELSE SubSeq(str, Len(str) - 2, Len(str))

\* student_id__startswith=prefix
StartsWith(str, prefix) ==
    Len(str) >= Len(prefix) /\ SubSeq(str, 1, Len(prefix)) = prefix

\* the order of order_by('student_id'): character by character, a proper
\* prefix before its extensions
RECURSIVE StrLess(_, _)
StrLess(a, b) ==
    IF b = <<>> THEN FALSE
    ELSE IF a = <<>> THEN TRUE
    ELSE IF a[1] # b[1] THEN Rank(a[1]) < Rank(b[1])
    ELSE StrLess(Tail(a), Tail(b))

\* session.name.split('/')[1]
RECURSIVE AfterSlash(_)
AfterSlash(name) ==
    IF name = <<>> THEN <<>>
    ELSE IF name[1] = "/" THEN Tail(name)
    ELSE AfterSlash(Tail(name))

\* AcademicSession.name of the entry sessions
SessionNames ==
    {<<"2", "0", "2", "3", "/", "2", "0", "2", "4">>,
     <<"2", "0", "2", "4", "/", "2", "0", "2", "5">>}

\* a student without department
NoDepartment == <<>>

\* Department.code of the student's department
DeptCodes == {<<"C", "S", "C">>, NoDepartment}

\* self.department.code if self.department else 'GEN'
DeptCode(department) ==
    IF department = NoDepartment THEN <<"G", "E", "N">> ELSE department

\* f"{year}{dept_code}"
IdPrefix(session, department) == AfterSlash(session) \o DeptCode(department)

\* an id given by the caller: the save() then generates nothing
NoId == <<>>

GivenIds == {NoId, <<"2", "0", "2", "4", "C", "S", "C", "9", "9", "8">>}

\* Student.objects.filter(student_id__startswith=prefix)
\*     .order_by('-student_id').first()
Matching(table, prefix) == {id \in table : StartsWith(id, prefix)}

\* the first row of a non-empty query set in descending order
FirstDescending(matching) ==
    CHOOSE id \in matching :
        \A other \in matching : other = id \/ StrLess(other, id)

LastStudent(table, prefix) ==
    IF Matching(table, prefix) = {} THEN NoId
    ELSE FirstDescending(Matching(table, prefix))

\* int(last_student.student_id[-3:]) + 1, or 1
NextNumberFirst(table, prefix) == 1

NextNumber(table, prefix) ==
    IF Matching(table, prefix) = {} THEN 1
    ELSE ParseInt(LastThree(LastStudent(table, prefix))) + 1

\* f"{year}{dept_code}{next_number:03d}"
GenerateStudentId(table, session, department) ==
    IdPrefix(session, department)
        \o Format03d(NextNumber(table, IdPrefix(session, department)))

\* super().save(): student_id is unique=True
CanInsert(table, id) == id \notin table

NoStudentSaved ==
    [id |-> NoId, result |-> "none", generated |-> FALSE, prefix |-> NoId]

NotSavingStudent ==
    [pc |-> "idle", id |-> NoId, prefix |-> NoId, overlapped |-> FALSE]

StudentsIdle ==
    /\ students = {}
    /\ student_savers = [w \in Writers |-> NotSavingStudent]
    /\ student_saved = NoStudentSaved

\* the first save() of a Student, run alone
SaveStudent ==
    /\ Cardinality(students) < MaxStudents
    /\ \E session \in SessionNames, department \in DeptCodes, given \in GivenIds :
        LET id == IF given = NoId
                  THEN GenerateStudentId(students, session, department)
                  ELSE given
        IN  /\ students' = IF CanInsert(students, id) THEN students \cup {id}
                           ELSE students
            /\ student_saved' =
                 [id |-> id,
                  result |-> IF CanInsert(students, id) THEN "saved"
                             ELSE "IntegrityError",
                  generated |-> given = NoId,
                  prefix |-> IdPrefix(session, department)]
    /\ UNCHANGED <<student_savers, notStudents>>

\* Department.code of the departments of a faculty whose codes share a
\* beginning
PrefixedDeptCodes == {<<"C", "S">>, <<"C", "S", "C">>}

\* the number of students of one year and department registered before
SeedCounts == {0, 998}

\* the most first saves of one sequence
MaxEnrolled == 4

\* the table after n first saves of one year and department
SeedTable(n) ==
    {<<"2", "0", "2", "4", "C", "S", "C">> \o Format03d(k) : k \in 1..n}

\* the students who register after n of one year and department have: any
\* after none, more of that year and department after 998
SeedSessions(n) ==
    IF n = 0 THEN SessionNames ELSE {<<"2", "0", "2", "3", "/", "2", "0", "2", "4">>}

SeedDeptCodes(n) ==
    IF n = 0 THEN PrefixedDeptCodes ELSE {<<"C", "S", "C">>}

\* the first save() of a Student without student_id, run alone, one of a
\* sequence of such saves
EnrolStudent ==
    /\ \E n \in SeedCounts :
        /\ Cardinality(students) >= n
        /\ Cardinality(students) < n + MaxEnrolled
        /\ \E session \in SeedSessions(n), department \in SeedDeptCodes(n) :
            \E id \in {GenerateStudentId(students, session, department)} :
            LET inserted == CanInsert(students, id)
            IN  /\ students' = IF inserted THEN students \cup {id} ELSE students
                /\ student_saved' =
                     [id |-> id,
                      result |-> IF inserted THEN "saved" ELSE "IntegrityError",
                      generated |-> TRUE,
                      prefix |-> IdPrefix(session, department)]
    /\ UNCHANGED <<student_savers, notStudents>>

OverlapStudent(savers, w) ==
    [v \in Writers |->
        IF v # w /\ savers[v].pc = "write"
        THEN [savers[v] EXCEPT !.overlapped = TRUE] ELSE savers[v]]

\* save(), up to self.student_id = ...: the query and the computed id
SaveStudentRead(w) ==
    /\ student_savers[w].pc = "idle"
    /\ Cardinality(students) < MaxStudents
    /\ \E session \in SessionNames, department \in DeptCodes :
        student_savers' =
            [OverlapStudent(student_savers, w) EXCEPT
               ![w] = [pc |-> "write",
                       id |-> GenerateStudentId(students, session, department),
                       prefix |-> IdPrefix(session, department),
                       overlapped |-> FALSE]]
    /\ UNCHANGED <<students, student_saved, notStudents>>

\* save(), last statement: super().save(*args, **kwargs)
SaveStudentWrite(w) ==
    /\ student_savers[w].pc = "write"
    /\ students' = IF CanInsert(students, student_savers[w].id)
                   THEN students \cup {student_savers[w].id} ELSE students
    /\ student_saved' =
         [id |-> student_savers[w].id,
          result |-> IF CanInsert(students, student_savers[w].id) THEN "saved"
                     ELSE "IntegrityError",
          generated |-> TRUE,
          prefix |-> student_savers[w].prefix]
    /\ student_savers' = [OverlapStudent(student_savers, w) EXCEPT ![w] = NotSavingStudent]
    /\ UNCHANGED notStudents


(***************************************************************************)
(* Result.save and Student.calculate_cgpa.  Grade points are counted in    *)
(* tenths and the CGPA in hundredths.                                      *)
(***************************************************************************)
\* the most Result rows of the student
MaxResults == 2

\* total_score = ca_score + exam_score: the scores around the grade limits
TotalScores == {39, 40, 45, 50, 60, 70}

\* Course.credits
Credits == {1, 2, 3}

\* Result.save: the grade point of a total score
GradePoint(total) ==
    IF total >= 70 THEN 50
    ELSE IF total >= 60 THEN 40
    ELSE IF total >= 50 THEN 30
    ELSE IF total >= 45 THEN 20
    ELSE IF total >= 40 THEN 10
    ELSE 0

\* self.results.filter(is_final=True)
FinalResults(rows) == {i \in DOMAIN rows : rows[i].is_final}

\* the loop over the final results: total_quality_points (in tenths) and
\* total_credits
RECURSIVE QualityPointsOver(_, _)
QualityPointsOver(rows, ids) ==
    IF ids = {} THEN 0
    ELSE LET i == CHOOSE i \in ids : TRUE
         IN  rows[i].grade_point * rows[i].credits
                 + QualityPointsOver(rows, ids \ {i})

RECURSIVE CreditsOver(_, _)
CreditsOver(rows, ids) ==
    IF ids = {} THEN 0
    ELSE LET i == CHOOSE i \in ids : TRUE
         IN  rows[i].credits + CreditsOver(rows, ids \ {i})

TotalQualityPoints(rows) == QualityPointsOver(rows, FinalResults(rows))

TotalCredits(rows) == CreditsOver(rows, FinalResults(rows))

\* (n / d).quantize(Decimal('0.01')) for n / d counted in hundredths: the
\* decimal context rounds half to even
QuantizeDown(n, d) == n \div d

Quantize(n, d) ==
    LET q == n \div d
        r == n % d
    IN  IF 2 * r > d \/ (2 * r = d /\ q % 2 = 1) THEN q + 1 ELSE q

\* calculate_cgpa has not run since the rows last changed
NoCgpa == 0 - 1

\* current_cgpa default Decimal('0.00'), total_credits_earned default 0
NewStudent == [current_cgpa |-> 0, total_credits_earned |-> 0]

GradesIdle ==
    /\ student_results = <<>>
    /\ student = NewStudent
    /\ cgpa_returned = NoCgpa

\* Result.save for a new row of the student
SaveResult ==
    /\ Len(student_results) < MaxResults
    /\ \E total \in TotalScores, credits \in Credits, is_final \in BOOLEAN :
        student_results' =
            Append(student_results, [grade_point |-> GradePoint(total),
                                     credits |-> credits, is_final |-> is_final])
    /\ cgpa_returned' = NoCgpa
    /\ UNCHANGED <<student, notGrades>>

\* a Result row is deleted, or edited to be final or no longer final
ChangeResult ==
    /\ \E i \in DOMAIN student_results :
        \/ student_results' = [student_results EXCEPT ![i].is_final = ~@]
        \/ student_results' = SubSeq(student_results, 1, i - 1)
                                  \o SubSeq(student_results, i + 1, Len(student_results))
    /\ cgpa_returned' = NoCgpa
    /\ UNCHANGED <<student, notGrades>>

\* Student.calculate_cgpa
CalculateCgpa ==
    /\ IF FinalResults(student_results) = {}
       THEN /\ cgpa_returned' = 0
            /\ UNCHANGED student
       ELSE IF TotalCredits(student_results) > 0
       THEN /\ student' =
                [current_cgpa |-> Quantize(TotalQualityPoints(student_results) * 10,
                                           TotalCredits(student_results)),
                 total_credits_earned |-> TotalCredits(student_results)]
            /\ cgpa_returned' = student'.current_cgpa
       ELSE /\ cgpa_returned' = 0
            /\ UNCHANGED student
    /\ UNCHANGED <<student_results, notGrades>>

(***************************************************************************)
(* TypesenseService.smart_chunk_text.  A sentence is a sequence of words   *)
(* separated by single spaces; a word is named by its sentence and its     *)
(* place in it, and has the length its sentence's kind gives it, so that   *)
(* split(), join() and len() are computed on words and characters as the   *)
(* code computes them.                                                     *)
(***************************************************************************)
\* the most sentences of a text
MaxSentences == 4

\* smart_chunk_text(self, text, chunk_size=1500, overlap=200)
chunk_size == 1500

overlap == 200

\* the sentences of the texts: a few short words, one word longer than
\* chunk_size, many short words, two long words
SentenceKinds == {"short", "long", "wordy", "dense"}

WordCount(kind) ==
    IF kind = "short" THEN 3
    ELSE IF kind = "long" THEN 1
    ELSE IF kind = "wordy" THEN 120
    ELSE 2

WordLength(kind) ==
    IF kind = "short" THEN 4
    ELSE IF kind = "long" THEN 1600
    ELSE IF kind = "wordy" THEN 5
    ELSE 700

\* re.split(r'(?<=[.!?])\s+', text): the texts, as sequences of sentences
SentenceSeqs == UNION {[1..n -> SentenceKinds] : n \in 0..MaxSentences}

\* the words of sentence number s
WordsOf(text, s) == [w \in 1..WordCount(text[s]) |-> <<s, w>>]

\* the letters of the words that come from sentences of one kind
LettersOfKind(text, words, kind) ==
    WordLength(kind)
        * Cardinality({i \in DOMAIN words : text[words[i][1]] = kind})

\* len(" ".join(words))
CharLength(text, words) ==
    IF words = <<>> THEN 0
    ELSE LettersOfKind(text, words, "short") + LettersOfKind(text, words, "long")
         + LettersOfKind(text, words, "wordy") + LettersOfKind(text, words, "dense")
         + Len(words) - 1

\* words[-overlap:] if len(words) > overlap else words
OverlapWordsAll(words) == words

OverlapWords(words) ==
    IF Len(words) > overlap
    THEN SubSeq(words, Len(words) - overlap + 1, Len(words))
    ELSE words

\* chunks.append({'content': ..., 'size': ..., 'chunk_id': len(chunks)})
Emit(chunks, current_chunk, current_size) ==
    Append(chunks, [content |-> current_chunk, size |-> current_size,
                    chunk_id |-> Len(chunks)])

\* the loop of smart_chunk_text from sentence number i on, and its end
RECURSIVE ChunkLoop(_, _, _, _, _)
ChunkLoop(text, i, current_chunk, current_size, chunks) ==
    IF i > Len(text)
    THEN IF current_chunk # <<>>
         THEN Emit(chunks, current_chunk, current_size)
         ELSE chunks
    ELSE LET sentence == WordsOf(text, i)
             sentence_size == CharLength(text, sentence)
         IN  IF current_size + sentence_size > chunk_size /\ current_chunk # <<>>
             THEN LET next == OverlapWords(current_chunk) \o sentence
                  IN  ChunkLoop(text, i + 1, next, CharLength(text, next),
                                Emit(chunks, current_chunk, current_size))
             ELSE ChunkLoop(text, i + 1, current_chunk \o sentence,
                            current_size + sentence_size + 1, chunks)

smart_chunk_text(text) == ChunkLoop(text, 1, <<>>, 0, <<>>)

NotChunked == [done |-> FALSE, chunks |-> <<>>]

ChunksIdle ==
    /\ sentences = <<>>
    /\ chunking = NotChunked

\* one call of smart_chunk_text
SmartChunkText ==
    /\ ~chunking.done
    /\ chunking' = [done |-> TRUE, chunks |-> smart_chunk_text(sentences)]
    /\ UNCHANGED <<sentences, notChunks>>

(***************************************************************************)
(* The reset_unilag_data command.  db holds the rows of the tables the     *)
(* command names and of the two it leaves alone; a row is its primary key  *)
(* and its foreign keys.  QuerySet.delete() collects the rows of the       *)
(* table, then the rows that reference them: an on_delete=CASCADE          *)
(* reference is deleted with them, an on_delete=PROTECT reference makes    *)
(* the whole delete raise ProtectedError before any row is removed.  The   *)
(* command runs outside a transaction, so each delete that returned is     *)
(* committed.                                                              *)
(***************************************************************************)
FacultyIds == {"SCI"}

DepartmentIds == {"CSC"}

SessionIds == {"2023/2024", "2024/2025"}

SemesterIds == {"first"}

CourseIds == {"CSC301"}

StudentPks == {"2024CSC001"}

UserIds == {"user-1", "staff-1"}

\* Department.faculty
DepartmentRows == [id : DepartmentIds, faculty : FacultyIds]

\* Semester.session
SemesterRows == [id : SemesterIds, session : SessionIds]

\* Course.department
CourseRows == [id : CourseIds, department : DepartmentIds]

\* Student.user, faculty, department, entry_session, current_session
StudentRows ==
    [id : StudentPks, user : {"user-1"}, faculty : FacultyIds,
     department : DepartmentIds, entry_session : SessionIds,
     current_session : SessionIds]

\* Enrollment.student, course, semester
EnrollmentRows == [student : StudentPks, course : CourseIds, semester : SemesterIds]

\* Result.student, course, semester
ResultRows == [student : StudentPks, course : CourseIds, semester : SemesterIds]

\* the primary keys of a set of rows
Ids(rows) == {r.id : r \in rows}

\* primary keys are unique
UniqueIds(rows) == \A r1 \in rows, r2 \in rows : r1.id = r2.id => r1 = r2

\* every foreign key (none of them nullable) names a row that exists
Consistent(d) ==
    /\ UniqueIds(d.Department) /\ UniqueIds(d.Semester)
    /\ UniqueIds(d.Course) /\ UniqueIds(d.Student)
    /\ \A r \in d.Department : r.faculty \in d.Faculty
    /\ \A r \in d.Semester : r.session \in d.AcademicSession
    /\ \A r \in d.Course : r.department \in Ids(d.Department)
    /\ \A r \in d.Student :
        /\ r.user \in d.User
        /\ r.faculty \in d.Faculty
        /\ r.department \in Ids(d.Department)
        /\ r.entry_session \in d.AcademicSession
        /\ r.current_session \in d.AcademicSession
    /\ \A r \in d.Enrollment \cup d.Result :
        /\ r.student \in Ids(d.Student)
        /\ r.course \in Ids(d.Course)
        /\ r.semester \in Ids(d.Semester)

Databases ==
    {d \in [Faculty : SUBSET FacultyIds, Department : SUBSET DepartmentRows,
            AcademicSession : SUBSET SessionIds, Semester : SUBSET SemesterRows,
            Course : SUBSET CourseRows, Student : SUBSET StudentRows,
            Enrollment : SUBSET EnrollmentRows, Result : SUBSET ResultRows,
            User : SUBSET UserIds] : Consistent(d)}

EmptyDatabase ==
    [Faculty |-> {}, Department |-> {}, AcademicSession |-> {}, Semester |-> {},
     Course |-> {}, Student |-> {}, Enrollment |-> {}, Result |-> {}, User |-> {}]

\* Result.objects.all().delete()
DeleteResults(d) == [d EXCEPT !.Result = {}]

\* Enrollment.objects.all().delete()
DeleteEnrollments(d) == [d EXCEPT !.Enrollment = {}]

\* the enrollments and results that cascade from deleted courses or semesters
CascadeRecords(d, courses, semesters) ==
    [d EXCEPT
       !.Enrollment = {r \in @ : r.course \notin courses /\ r.semester \notin semesters},
       !.Result = {r \in @ : r.course \notin courses /\ r.semester \notin semesters}]

\* Course.objects.all().delete(): enrollments and results cascade
DeleteCourses(d) ==
    [CascadeRecords(d, Ids(d.Course), {}) EXCEPT !.Course = {}]

\* Semester.objects.all().delete(): enrollments and results cascade
DeleteSemesters(d) ==
    [CascadeRecords(d, {}, Ids(d.Semester)) EXCEPT !.Semester = {}]

\* Student.entry_session and Student.current_session are PROTECT
SessionsProtected(d) ==
    \E r \in d.Student :
        r.entry_session \in d.AcademicSession \/ r.current_session \in d.AcademicSession

\* AcademicSession.objects.all().delete(): semesters cascade, and from them
\* enrollments and results
DeleteSessions(d) ==
    [CascadeRecords(d, {}, Ids(d.Semester)) EXCEPT
       !.AcademicSession = {}, !.Semester = {}]

\* Student.department is PROTECT
DepartmentsProtected(d) ==
    \E r \in d.Student : r.department \in Ids(d.Department)

\* Department.objects.all().delete(): courses cascade, and from them
\* enrollments and results
DeleteDepartments(d) ==
    [CascadeRecords(d, Ids(d.Course), {}) EXCEPT !.Department = {}, !.Course = {}]

\* Student.faculty is PROTECT, and so is Student.department for the
\* departments that cascade from the faculties
FacultiesProtected(d) ==
    \/ \E r \in d.Student : r.faculty \in d.Faculty
    \/ DepartmentsProtected(d)

\* Faculty.objects.all().delete(): departments cascade, and from them courses
DeleteFaculties(d) ==
    [DeleteDepartments(d) EXCEPT !.Faculty = {}]

NoReset == [confirm |-> FALSE, status |-> "none", raised_at |-> "none"]

ResetIdle ==
    /\ db = EmptyDatabase
    /\ reset = NoReset

\* Command.handle after the confirmation test: the deletes in the order of
\* the code, up to the first that raises
Handle(d) ==
    LET emptied == DeleteSemesters(DeleteCourses(DeleteEnrollments(DeleteResults(d))))
        done(rows) == [db |-> rows, status |-> "done", raised_at |-> "none"]
        raised(rows, model) ==
            [db |-> rows, status |-> "ProtectedError", raised_at |-> model]
    IN  IF SessionsProtected(emptied) THEN raised(emptied, "AcademicSession")
        ELSE IF DepartmentsProtected(DeleteSessions(emptied))
             THEN raised(DeleteSessions(emptied), "Department")
        ELSE IF FacultiesProtected(DeleteDepartments(DeleteSessions(emptied)))
             THEN raised(DeleteDepartments(DeleteSessions(emptied)), "Faculty")
        ELSE done(DeleteFaculties(DeleteDepartments(DeleteSessions(emptied))))

\* one run of  manage.py reset_unilag_data [--confirm]
ResetUnilagData ==
    /\ \E confirm \in BOOLEAN :
        IF ~confirm
        THEN /\ reset' = [confirm |-> FALSE, status |-> "refused", raised_at |-> "none"]
             /\ db' = db
        ELSE \E run \in {Handle(db)} :
             /\ db' = run.db
             /\ reset' = [confirm |-> TRUE, status |-> run.status,
                          raised_at |-> run.raised_at]
    /\ UNCHANGED notReset

(***************************************************************************)
(* The search index.  A document of the collection is keyed by the md5 of  *)
(* "<document_id>_<chunk_id>", taken here as the pair itself; its content  *)
(* is the chunk's words, each written as the kind of its sentence and its  *)
(* place in the text.                                                      *)
(***************************************************************************)
\* the most sentences of an indexed text
MaxIndexedSentences == 2

\* Document.extracted_text
IndexTexts == {t \in SentenceSeqs : Len(t) <= MaxIndexedSentences}

\* chunk['content'] as text
Rendered(text, words) ==
    [i \in DOMAIN words |-> <<text[words[i][1]], words[i][1], words[i][2]>>]

\* index_document: the documents list built from the chunks
ChunkDocuments(document_id, text) ==
    LET chunks == smart_chunk_text(text)
    IN  {[document_id |-> document_id,
          chunk_id |-> chunks[i].chunk_id,
          content |-> Rendered(text, chunks[i].content)] : i \in DOMAIN chunks}

\* documents.import_(documents, {'action': 'upsert'}): a document replaces
\* the one of the same id, and no other is touched
Upsert(entries, documents) ==
    {e \in entries :
        ~\E d \in documents :
            d.document_id = e.document_id /\ d.chunk_id = e.chunk_id}
    \cup documents

\* what index_document can do and return: it imports nothing and returns
\* False (no chunks, or an exception), or each document of the batch is
\* imported or not and it returns whether all were
IndexChunks(entries, document_id, text) ==
    LET documents == ChunkDocuments(document_id, text)
    IN  IF documents = {}
        THEN {[entries |-> entries, success |-> FALSE]}
        ELSE {[entries |-> Upsert(entries, imported),
               success |-> imported = documents] : imported \in SUBSET documents}

\* the entries of one document
EntriesOf(entries, document_id) == {e \in entries : e.document_id = document_id}

\* another document, indexed before
OtherDocumentEntries == ChunkDocuments("doc-2", <<"short">>)

NotIndexed == [ran |-> FALSE, success |-> FALSE]

IndexIdle ==
    /\ doc_text = <<>>
    /\ index_entries = {}
    /\ indexed = NotIndexed

\* DocumentService.reprocess_document past the extraction: the text is
\* replaced by what Tika extracted and the document is indexed again
ReindexDocument ==
    /\ \E content \in IndexTexts :
        /\ doc_text' = content
        /\ \E run \in IndexChunks(index_entries, "doc-1", content) :
            /\ index_entries' = run.entries
            /\ indexed' = [ran |-> TRUE, success |-> run.success]
    /\ UNCHANGED notIndex

\* index_document_task: skipped without text, else one index_document call
IndexDocumentTask ==
    /\ doc_text # <<>>
    /\ \E run \in IndexChunks(index_entries, "doc-1", doc_text) :
        /\ index_entries' = run.entries
        /\ indexed' = [ran |-> TRUE, success |-> run.success]
    /\ UNCHANGED <<doc_text, notIndex>>

LateIdle == ResetIdle /\ IndexIdle

MoreIdle == GradesIdle /\ ChunksIdle /\ LateIdle

RecordsIdle == TermsIdle /\ StudentsIdle /\ MoreIdle

(***************************************************************************)
(* Specifications.                                                         *)
(***************************************************************************)
\* the other subsystems at rest, with empty tables
NoSession ==
    /\ session_user = NoUser
    /\ http = NoHttp

InitPipeline == PipelineIdle /\ NoSession /\ ChatEmpty /\ DocsEmpty /\ RecordsIdle

NextPipeline ==
    \/ ProcessQuery
    \/ AnalyzeQuery
    \/ TypesenseSearch
    \/ ParallelExecution
    \/ SynthesizeResponse
    \/ CheckEscalation
    \/ ProcessQueryReturn

SpecPipeline == InitPipeline /\ [][NextPipeline]_vars

InitWeb == WebIdle /\ PipelineIdle /\ DocsEmpty /\ RecordsIdle

InitChat == ChatEmpty /\ NoSession /\ PipelineIdle /\ DocsEmpty /\ RecordsIdle

InitDocs == DocsEmpty /\ ChatEmpty /\ NoSession /\ PipelineIdle /\ RecordsIdle

NextUpload ==
    \/ ProcessDocumentUpload
    \/ ReprocessDocument
    \/ AdminSaveModel
    \/ DeleteFromStorage
    \/ DeleteFromIndex
    \/ DeleteRow

SpecUpload == InitDocs /\ [][NextUpload]_vars

NextDocs ==
    \/ ProcessDocumentUpload
    \/ ReprocessDocument
    \/ AdminSaveModel
    \/ RunIndexDocumentTask
    \/ RunProcessDocumentTasks

SpecDocs == InitDocs /\ [][NextDocs]_vars

\* a document added in the admin with a source URL: its row is saved and its
\* process task is queued
InitTasks ==
    /\ deleting = NotDeleting
    /\ document = Save(NewDocument)
    /\ tasks = <<NewTask("process_document_tasks", "", SourceUrl)>>
    /\ last_index = NoIndexCall
    /\ ret = [NoReturn EXCEPT !.op = "save_model", !.status = "queued"]
    /\ ChatEmpty /\ NoSession /\ PipelineIdle /\ RecordsIdle

NextTasks ==
    \/ Delay
    \/ RunIndexDocumentTask
    \/ RunProcessDocumentTasks
    \/ RunDeleteDocumentFromIndexTask

SpecTasks == InitTasks /\ [][NextTasks]_vars

NextChat ==
    \/ ChatView
    \/ SendMessage
    \/ RequestEscalation
    \/ AdminUpdateTicket

SpecChat == InitChat /\ [][NextChat]_vars

NextWeb ==
    \/ CustomLogin
    \/ CustomLogout
    \/ RateMessage

SpecWeb == InitWeb /\ [][NextWeb]_vars

\* saves one at a time, from a table in which any number of rows is current
InitTermsSerial ==
    /\ term_model \in TermModels
    /\ term_rows \in [RowIds -> RowStates]
    /\ term_savers = [w \in Writers |-> NotSaving]
    /\ term_saved = NoTermSaved
    /\ StudentsIdle /\ MoreIdle
    /\ DocsEmpty /\ ChatEmpty /\ NoSession /\ PipelineIdle

SpecTermsSerial == InitTermsSerial /\ [][SaveTerm]_vars

\* concurrent saves, from an empty table
InitTermsRace ==
    /\ term_model \in TermModels
    /\ term_rows = NoRows
    /\ term_savers = [w \in Writers |-> NotSaving]
    /\ term_saved = NoTermSaved
    /\ StudentsIdle /\ MoreIdle
    /\ DocsEmpty /\ ChatEmpty /\ NoSession /\ PipelineIdle

NextTermsRace ==
    \E w \in Writers : SaveTermClear(w) \/ SaveTermWrite(w)

SpecTermsRace == InitTermsRace /\ [][NextTermsRace]_vars

InitStudents ==
    /\ StudentsIdle /\ TermsIdle /\ MoreIdle
    /\ DocsEmpty /\ ChatEmpty /\ NoSession /\ PipelineIdle

SpecStudents == InitStudents /\ [][SaveStudent]_vars

NextStudentsRace ==
    \E w \in Writers : SaveStudentRead(w) \/ SaveStudentWrite(w)

SpecStudentsRace == InitStudents /\ [][NextStudentsRace]_vars

\* first saves only, after none or after 998 of one year and department
InitEnrolment ==
    /\ \E n \in SeedCounts : students = SeedTable(n)
    /\ student_savers = [w \in Writers |-> NotSavingStudent]
    /\ student_saved = NoStudentSaved
    /\ TermsIdle /\ MoreIdle
    /\ DocsEmpty /\ ChatEmpty /\ NoSession /\ PipelineIdle

SpecEnrolment == InitEnrolment /\ [][EnrolStudent]_vars

InitGrades ==
    /\ GradesIdle /\ ChunksIdle /\ LateIdle /\ StudentsIdle /\ TermsIdle
    /\ DocsEmpty /\ ChatEmpty /\ NoSession /\ PipelineIdle

NextGrades == SaveResult \/ ChangeResult \/ CalculateCgpa

SpecGrades == InitGrades /\ [][NextGrades]_vars

InitChunks ==
    /\ sentences \in SentenceSeqs
    /\ chunking = NotChunked
    /\ GradesIdle /\ LateIdle /\ StudentsIdle /\ TermsIdle
    /\ DocsEmpty /\ ChatEmpty /\ NoSession /\ PipelineIdle

SpecChunks == InitChunks /\ [][SmartChunkText]_vars

\* the command run on any database that respects its foreign keys
InitReset ==
    /\ db \in Databases
    /\ reset = NoReset
    /\ IndexIdle
    /\ GradesIdle /\ ChunksIdle /\ StudentsIdle /\ TermsIdle
    /\ DocsEmpty /\ ChatEmpty /\ NoSession /\ PipelineIdle

SpecReset == InitReset /\ [][ResetUnilagData]_vars

\* one document not indexed yet, beside none or one indexed before
InitIndex ==
    /\ doc_text = <<>>
    /\ index_entries \in {{}, OtherDocumentEntries}
    /\ indexed = NotIndexed
    /\ ResetIdle
    /\ GradesIdle /\ ChunksIdle /\ StudentsIdle /\ TermsIdle
    /\ DocsEmpty /\ ChatEmpty /\ NoSession /\ PipelineIdle

NextIndex == ReindexDocument \/ IndexDocumentTask

SpecIndex == InitIndex /\ [][NextIndex]_vars

(***************************************************************************)
(* Claims about the orchestration pipeline.                                *)
(***************************************************************************)
Range(f) == {f[i] : i \in DOMAIN f}

IsPrefix(p, q) == Len(p) <= Len(q) /\ SubSeq(q, 1, Len(p)) = p

SearchOnlyPath ==
    <<"analyze_query", "typesense_search", "synthesize_response", "check_escalation">>

\* an invocation that has returned through the graph
Returned == pc = "idle" /\ output.success

\* C1: an invocation whose user context is not flagged authenticated or has
\* no student id runs analyze -> search -> synthesize -> check-escalation,
\* never enters execute_tools or parallel_execution, and returns with
\* tools_used and mcp_data empty.
C1_UnauthenticatedSearchOnly ==
    (~request.user_context.authenticated
        \/ request.user_context.student_id = NoStudentId)
    => /\ IsPrefix(visited, SearchOnlyPath)
       /\ "execute_tools" \notin Range(visited)
       /\ "parallel_execution" \notin Range(visited)
       /\ pc # "error"
       /\ Returned => /\ visited = SearchOnlyPath
                      /\ output.tools_used = <<>>
                      /\ output.mcp_data = <<>>

\* C1 witness: a personal query of a user flagged authenticated but without
\* a student id has returned.
C1_Witness ==
    /\ Returned
    /\ request.user_context.authenticated
    /\ request.user_context.student_id = NoStudentId
    /\ request.query = QueryCgpa

\* C2 as claimed: at the end of every run escalation_needed is true whenever
\* the final response contains "I don't have access", "contact the",
\* "speak to" or "visit the", or is shorter than 50 characters, or a tool call
\* of the turn recorded a failure.
C2_EscalationFlagged ==
    Returned =>
        ((\/ AnyIn(escalation_indicators, output.response)
          \/ Len(output.response) < MinResponseLength
          \/ \E i \in DOMAIN output.mcp_data : ~output.mcp_data[i].success)
         => output.escalation_needed)
(***************************************************************************)
(* Claims about the login and rate-message views.                          *)
(***************************************************************************)
\* the last request was a login POST, from a session not logged in, that
\* named no existing student
UnknownIdLogin ==
    /\ http.view = "custom_login" /\ http.status = 200
    /\ http.student_id # "" /\ http.password # ""
    /\ http.student_id \notin DOMAIN StudentTable

\* ... or that named an active student with another password than theirs
WrongPasswordLogin ==
    /\ http.view = "custom_login" /\ http.status = 200
    /\ http.student_id \in DOMAIN StudentTable /\ http.password # ""
    /\ StudentTable[http.student_id].user_active
    /\ StudentTable[http.student_id].student_active
    /\ StudentTable[http.student_id].password # http.password

\* C3 as claimed: a failed login with an unknown student identifier and a
\* failed login with a known identifier but a wrong password both show
\* "Invalid Credentials".
C3_GenericLoginFailure ==
    (UnknownIdLogin \/ WrongPasswordLogin) => http.flash = "Invalid Credentials"

\* C4 as claimed: the rate-message endpoint updates a rating only when the
\* supplied rating is 1 or 2; any other rating is rejected with an error and
\* leaves the stored ratings unchanged.
C4_RejectsInvalidRating ==
    [][(http'.view = "rate_message" /\ http'.rating \notin ValidRatings)
        => (http'.status # 200 /\ messages' = messages)]_vars
(***************************************************************************)
(* Claims about the chat and escalation views.                             *)
(***************************************************************************)
\* the tickets of a conversation in status new, assigned or in_progress
OpenTicketsOf(conversation) ==
    {t \in DOMAIN tickets :
        /\ tickets[t].conversation = conversation
        /\ tickets[t].status \in {"new", "assigned", "in_progress"}}

\* C5: a request for escalation on a conversation that has a ticket in status
\* new, assigned or in_progress returns the id of such a ticket and creates no
\* ticket; a second request right after a first returns the first one's ticket.
C5_EscalationDedup ==
    [][/\ (/\ http'.view = "request_escalation"
           /\ http'.session_conversation \in DOMAIN conversations
           /\ OpenTicketsOf(http'.session_conversation) # {})
          => /\ tickets' = tickets
             /\ http'.status = 200
             /\ http'.ticket_id \in OpenTicketsOf(http'.session_conversation)
       /\ (/\ http.view = "request_escalation" /\ http.status = 200
           /\ http'.view = "request_escalation"
           /\ http'.session_conversation = http.session_conversation)
          => /\ tickets' = tickets
             /\ http'.ticket_id = http.ticket_id]_vars

\* C5 witness: a request has been answered with a ticket that staff had
\* already taken in progress, while the conversation has one ticket only.
C5_Witness ==
    /\ http.view = "request_escalation"
    /\ http.flash = AlreadyEscalated
    /\ tickets[http.ticket_id].status = "in_progress"
    /\ Cardinality({t \in DOMAIN tickets :
                      tickets[t].conversation = http.conversation}) = 1
(***************************************************************************)
(* Claims about the Celery tasks.                                          *)
(***************************************************************************)
\* this step is a run of task id's message at retry level r
RanAt(id, r) ==
    /\ tasks'[id].runs = tasks[id].runs + 1
    /\ tasks'[id].pending[r] = tasks[id].pending[r] - 1

\* C6: the body of one enqueued index task (one task id) runs at most 4
\* times: the original attempt plus at most 3 retries.
C6_IndexTaskRunsBounded ==
    \A id \in DOMAIN tasks :
        tasks[id].name = "index_document_task" => tasks[id].runs <= 4

\* C7: every failing attempt of the process task leaves the document failed
\* and, while fewer than 3 retries were made, sends one retry.
C7_FailedProcessRetried ==
    [][\A id \in DOMAIN tasks, r \in 0..3 :
         (/\ tasks[id].name = "process_document_tasks"
          /\ RanAt(id, r)
          /\ ret'.status \in {"failed", "retry"})
         => /\ document'.processing_status = "failed"
            /\ r < 3 => tasks'[id].pending[r + 1] = tasks[id].pending[r + 1] + 1]_vars

\* C8: a run of the delete task ends with a failed status only once 2
\* retries were made; earlier failing runs are retried.
C8_DeleteRetriedBeforeFailed ==
    [][\A id \in DOMAIN tasks, r \in 0..3 :
         (/\ tasks[id].name = "delete_document_from_index_task"
          /\ RanAt(id, r)
          /\ ret'.status = "failed")
         => r = 2]_vars

\* C11: a run of the index task on a document without extracted_text returns
\* skipped and leaves vector_indexed and index_version as they were; a run
\* that indexes successfully (content and a working backend) sets
\* vector_indexed and raises index_version by exactly 1; no other run of the
\* task changes index_version.
C11_IndexTaskEffect ==
    [][\A id \in DOMAIN tasks, r \in 0..3 :
         (tasks[id].name = "index_document_task" /\ RanAt(id, r) /\ document.exists)
         => /\ document.extracted_text = "" =>
                 /\ ret'.status = "skipped"
                 /\ document'.vector_indexed = document.vector_indexed
                 /\ document'.index_version = document.index_version
            /\ ret'.status = "success" =>
                 /\ document.extracted_text # ""
                 /\ document'.vector_indexed
                 /\ document'.index_version = document.index_version + 1
            /\ ret'.status # "success" =>
                 document'.index_version = document.index_version]_vars

\* C11 witness: an index task run has succeeded and the version went from its
\* default to the next.
C11_Witness ==
    /\ ret.op = "index_document_task"
    /\ ret.status = "success"
    /\ document.vector_indexed
    /\ document.index_version = 2

(***************************************************************************)
(* Claims about the document operations.                                   *)
(***************************************************************************)
\* C9: when process_document_upload has returned, the saved row is completed
\* and success was returned, or it is failed with a non-empty error_message
\* and failure was returned.
C9_UploadEndsTerminal ==
    (ret.op = "process_document_upload" /\ ret.status \in {"success", "failure"})
    => /\ document.exists
       /\ \/ /\ ret.status = "success"
             /\ document.processing_status = "completed"
          \/ /\ ret.status = "failure"
             /\ document.processing_status = "failed"
             /\ document.error_message # ""

\* C9 witness: an upload has returned failure after the extractor failed on a
\* file already stored.
C9_Witness ==
    /\ ret.op = "process_document_upload"
    /\ ret.status = "failure"
    /\ document.firebase_path = FirebasePath
    /\ document.error_message = "Content extraction failed: connection refused"

\* C10: a completed document has a non-empty extracted_text, and is marked
\* vector_indexed if the index call made for that text succeeded.
C10_CompletedIsIndexed ==
    (document.exists /\ document.processing_status = "completed")
    => /\ document.extracted_text # ""
       /\ (last_index.success /\ last_index.content = document.extracted_text)
          => document.vector_indexed
\* C12: each successful reprocess_document whose index call succeeded raises
\* the document's index_version.
C12_ReprocessRaisesVersion ==
    [][(/\ ret'.op = "reprocess_document"
        /\ ret'.status = "success"
        /\ last_index'.success)
       => document'.index_version > document.index_version]_vars
\* the calls of a log, in order
Calls(log) == [i \in DOMAIN log |-> log[i].call]

\* C13: delete_document attempts the storage delete (for a stored file) and
\* the search-index delete before the row delete; it goes on to the row delete
\* whatever the two returned; it returns failure exactly when the row delete
\* raised, and success leaves no row.
C13_DeleteOrder ==
    /\ deleting.pc = "row" =>
         Calls(deleting.log) \in {<<"delete_file", "delete_document">>,
                                 <<"delete_document">>}
    /\ (deleting.pc = "idle" /\ deleting.log # <<>>) =>
         /\ deleting.log[Len(deleting.log)].call = "delete"
         /\ Calls(deleting.log) \in {<<"delete_file", "delete_document", "delete">>,
                                     <<"delete_document", "delete">>}
    /\ (ret.op = "delete_document" /\ ret.status = "success") =>
         /\ ~document.exists
         /\ deleting.log[Len(deleting.log)] = Attempt("delete", TRUE)
    /\ (ret.op = "delete_document" /\ ret.status = "failure") =>
         /\ document.exists
         /\ deleting.log[Len(deleting.log)] = Attempt("delete", FALSE)
    /\ (deleting.pc = "index" /\ document.exists /\ ret.op = "delete_document") =>
         (document.firebase_path # "" <=> deleting.log # <<>>)

\* C13 witness: the storage delete and the index delete both failed, and the
\* row was deleted with success returned.
C13_Witness ==
    /\ ret.op = "delete_document"
    /\ ret.status = "success"
    /\ deleting.log = <<Attempt("delete_file", FALSE),
                        Attempt("delete_document", FALSE),
                        Attempt("delete", TRUE)>>
(***************************************************************************)
(* Claims about AcademicSession.save and Semester.save.                    *)
(***************************************************************************)
\* C14: with saves run one at a time, after a save with is_current = true the
\* saved row is the one and only current row, however many were current before.
C14_SingleCurrentAfterSave ==
    term_saved.is_current => CurrentRows(term_rows) = {term_saved.id}

\* C14 witness: a save with is_current = true found two or more current rows
\* and a row other than the saved one was among them.
C14_Witness ==
    /\ term_saved.is_current
    /\ term_saved.cleared >= 2
    /\ \E id \in RowIds : id # term_saved.id /\ term_rows[id] = "not_current"

\* C15: several rows become current only through a save that another writer's
\* save overlapped: the step that takes the table from at most one current row
\* to more is the write of an overlapped writer.
C15_RaceLeavesTwoCurrent ==
    [][(/\ Cardinality(CurrentRows(term_rows)) <= 1
        /\ Cardinality(CurrentRows(term_rows')) > 1)
       => \E w \in Writers :
             /\ term_savers[w].pc = "write"
             /\ term_savers'[w].pc = "idle"
             /\ term_savers[w].overlapped]_vars

\* C15 witness: both writers have completed a save of a different row with
\* is_current = true and both rows are current.
C15_Witness ==
    /\ \A w \in Writers : term_savers[w].pc = "idle"
    /\ term_saved.is_current
    /\ Cardinality(CurrentRows(term_rows)) = 2
(***************************************************************************)
(* Claims about Student.save.                                              *)
(***************************************************************************)
\* the sequence numbers of the ids of one year and department
SequenceNumbers(table, prefix) ==
    {ParseInt(SubSeq(id, Len(prefix) + 1, Len(id))) : id \in Matching(table, prefix)}

Highest(numbers) == CHOOSE n \in numbers : \A k \in numbers : k <= n

\* C16: a first save without student_id stores year, department code and a
\* 3-digit zero-padded sequence number: 1 when no student has that year and
\* department, otherwise one more than the highest sequence number among them.
C16_GeneratedStudentId ==
    [][student_saved'.generated
       => LET prefix == student_saved'.prefix
              number == IF Matching(students, prefix) = {} THEN 1
                        ELSE Highest(SequenceNumbers(students, prefix)) + 1
          IN  /\ student_saved'.result = "saved"
              /\ Len(student_saved'.id) = Len(prefix) + 3
              /\ student_saved'.id = prefix \o ZeroPad(Decimal(number), 3)
              /\ students' = students \cup {student_saved'.id}]_vars

\* C16 below the boundary: the same statement for tables whose highest
\* sequence number of that year and department is under 999.
C16_GeneratedBelow999 ==
    [][(/\ student_saved'.generated
        /\ \A n \in SequenceNumbers(students, student_saved'.prefix) : n < 999)
       => LET prefix == student_saved'.prefix
              number == IF Matching(students, prefix) = {} THEN 1
                        ELSE Highest(SequenceNumbers(students, prefix)) + 1
          IN  /\ student_saved'.result = "saved"
              /\ Len(student_saved'.id) = Len(prefix) + 3
              /\ student_saved'.id = prefix \o ZeroPad(Decimal(number), 3)]_vars

\* the second student of a year and department has been given ...002
C16_SecondStudent ==
    /\ student_saved.generated
    /\ student_saved.result = "saved"
    /\ student_saved.id = <<"2", "0", "2", "4", "C", "S", "C", "0", "0", "2">>
    /\ <<"2", "0", "2", "4", "C", "S", "C", "0", "0", "1">> \in students

\* C17: a first save fails on a duplicate student_id only when another
\* writer's save overlapped it, and the stored ids stay distinct from the
\* id it computed: the two saves computed one id from the same read.
C17_CollisionOnlyByOverlap ==
    [][\A w \in Writers :
          (/\ student_savers[w].pc = "write"
           /\ student_savers'[w].pc = "idle"
           /\ student_saved'.result = "IntegrityError")
          => /\ student_savers[w].overlapped
             /\ student_savers[w].id \in students
             /\ students' = students]_vars

\* C17 witness: two writers read the same highest suffix, both computed
\* ...002, one stored it and the other's save failed on the duplicate.
C17_Witness ==
    /\ student_saved.result = "IntegrityError"
    /\ student_saved.id = <<"2", "0", "2", "4", "C", "S", "C", "0", "0", "2">>
    /\ student_saved.id \in students
    /\ \A w \in Writers : student_savers[w].pc = "idle"
(***************************************************************************)
(* Claims about conversation continuity, the sequential fallback and       *)
(* escalation after successful tool calls.                                 *)
(***************************************************************************)
\* C18: whenever the search ran in an invocation and the Search Service
\* returned a conversation id, on the search-only route and inside parallel
\* execution alike, process_query returns that id as conversation_id.
C18_ReturnedConversationId ==
    [][(/\ pc = "END"
        /\ pc' = "idle"
        /\ "typesense_search" \in Range(visited)
        /\ state.typesense_result.has_conversation_id)
       => output'.conversation_id = state.typesense_result.conversation_id]_vars

\* C18 on the search-only route alone, where the claim holds.
C18_SearchOnlyRoute ==
    [][(/\ pc = "END"
        /\ pc' = "idle"
        /\ visited = SearchOnlyPath
        /\ state.typesense_result.has_conversation_id)
       => output'.conversation_id = state.typesense_result.conversation_id]_vars

C20_NoEscalationAfterSuccess ==
    (/\ pc = "END"
     /\ state.needs_tools
     /\ \A i \in DOMAIN state.mcp_results : state.mcp_results[i].success
     /\ Len(state.final_response) >= MinResponseLength)
    => ~state.escalation_needed
(***************************************************************************)
(* Claims about the chat page, open tickets and conversation ownership.    *)
(***************************************************************************)
\* C21: a chat-page load by an authenticated user succeeds and renders a
\* conversation owned by that user, however many conversations the user owns.
C21_ChatPageLoads ==
    [][(http'.view = "chat_view" /\ http'.user # NoUser)
       => /\ http'.status = 200
          /\ conversations'[http'.conversation].user = http'.user]_vars

\* C26: a conversation never has more than one escalation ticket in status
\* new, assigned or in_progress.
C26_OneOpenTicket ==
    \A c \in DOMAIN conversations : Cardinality(OpenTicketsOf(c)) <= 1

\* C27: the messages of a send-message request never go to a conversation
\* owned by a user other than the caller, authenticated or anonymous.
C27_MessagesToOwnConversation ==
    [][(/\ http'.view = "send_message"
        /\ Len(messages') > Len(messages))
       => LET owner == conversations'[messages'[Len(messages')].conversation].user
          IN  owner = NoUser \/ owner = http'.user]_vars

\* C27 for authenticated callers alone, where the ownership check applies.
C27_AuthenticatedCaller ==
    [][(/\ http'.view = "send_message"
        /\ http'.user # NoUser
        /\ Len(messages') > Len(messages))
       => conversations'[messages'[Len(messages')].conversation].user
             = http'.user]_vars
C22_NoFinalResults ==
    /\ cgpa_returned = 0
    /\ student_results # <<>>
    /\ FinalResults(student_results) = {}
(***************************************************************************)
(* Claims about smart_chunk_text.                                          *)
(***************************************************************************)
\* the words of sentences number a + 1 to b, in order
RECURSIVE SentenceRun(_, _, _)
SentenceRun(text, a, b) ==
    IF a >= b THEN <<>> ELSE WordsOf(text, a + 1) \o SentenceRun(text, a + 1, b)

LastWords(words, n) == SubSeq(words, Len(words) - n + 1, Len(words))

\* chunks number i and later are, each, at most overlap words from the end of
\* the chunk before followed by one or more whole new sentences, the new
\* sentences being those after sentence number a, in order, up to the last
RECURSIVE Reconstructs(_, _, _)
Reconstructs(text, i, a) ==
    LET chunks == chunking.chunks IN
    IF i > Len(chunks) THEN a = Len(text)
    ELSE LET before == IF i = 1 THEN <<>> ELSE chunks[i - 1].content
             most == IF Len(before) > overlap THEN overlap ELSE Len(before)
         IN  \E n \in 0..most, b \in (a + 1)..Len(text) :
                /\ chunks[i].content = LastWords(before, n) \o SentenceRun(text, a, b)
                /\ Reconstructs(text, i + 1, b)

\* C23: for a text split into several chunks, every chunk after the first is
\* at most 200 words from the end of the previous chunk followed by new
\* sentences, and the new sentences of all chunks in order are the original
\* sentences, none lost, repeated or reordered.
C23_ChunksReconstruct ==
    (chunking.done /\ Len(chunking.chunks) > 1)
    => /\ Reconstructs(sentences, 1, 0)
       /\ \A i \in 2..Len(chunking.chunks) :
             \E n \in 1..overlap :
                /\ n <= Len(chunking.chunks[i - 1].content)
                /\ n < Len(chunking.chunks[i].content)
                /\ SubSeq(chunking.chunks[i].content, 1, n)
                      = LastWords(chunking.chunks[i - 1].content, n)

\* C23 witness: three sentences of 120 words each make two chunks, the second
\* starting with the last 200 of the first chunk's 240 words.
C23_Witness ==
    /\ chunking.done
    /\ sentences = <<"wordy", "wordy", "wordy">>
    /\ Len(chunking.chunks) = 2
    /\ Len(chunking.chunks[1].content) = 240
    /\ Len(chunking.chunks[2].content) = overlap + 120
    /\ chunking.chunks[2].content[1] = <<1, 41>>

\* C30: every chunk has at most chunk_size characters, overlap words
\* included, unless it holds a sentence that is itself longer than chunk_size.
C30_ChunkWithinSize ==
    chunking.done
    => \A i \in DOMAIN chunking.chunks :
          \/ CharLength(sentences, chunking.chunks[i].content) <= chunk_size
          \/ \E s \in DOMAIN sentences :
                /\ CharLength(sentences, WordsOf(sentences, s)) > chunk_size
                /\ <<s, 1>> \in Range(chunking.chunks[i].content)
(***************************************************************************)
(* Claims about sequences of first saves of students.                      *)
(***************************************************************************)
\* C25: in a sequence of first saves without student_id, run one at a time,
\* every save succeeds and assigns an id no other student holds, beyond 999
\* students of a year and department and with department codes that begin
\* alike.
C25_EveryFirstSaveSucceeds ==
    [][student_saved'.generated
       => /\ student_saved'.result = "saved"
          /\ student_saved'.id \notin students
          /\ students' = students \cup {student_saved'.id}]_vars
(***************************************************************************)
(* Claims about the reset command.                                         *)
(***************************************************************************)
\* the seven tables the command names
AcademicTablesEmpty(d) ==
    /\ d.Result = {} /\ d.Enrollment = {} /\ d.Course = {} /\ d.Semester = {}
    /\ d.AcademicSession = {} /\ d.Department = {} /\ d.Faculty = {}

\* C24: run with the confirmation flag, the reset command completes having
\* deleted all results, enrollments, courses, semesters, sessions,
\* departments and faculties, while every Student and User row that existed
\* before still exists unchanged.
C24_ResetDeletesAll ==
    [][reset'.confirm =>
         /\ reset'.status = "done"
         /\ AcademicTablesEmpty(db')
         /\ db'.Student = db.Student
         /\ db'.User = db.User]_vars

\* C24, the part that holds: no run of the command, confirmed or not,
\* changes a Student or a User row.
C24_StudentsAndUsersKept ==
    [][db'.Student = db.Student /\ db'.User = db.User]_vars

\* C24, the case that holds: with no Student row stored, the confirmed run
\* completes and leaves the seven tables empty.
C24_CompletesWithoutStudents ==
    [][(reset'.confirm /\ db.Student = {}) =>
         /\ reset'.status = "done"
         /\ AcademicTablesEmpty(db')]_vars

\* C24: a confirmed run has ended in ProtectedError with sessions,
\* departments and faculties still stored.
C24_RunRaised ==
    /\ reset.confirm
    /\ reset.status = "ProtectedError"
    /\ db.Student # {}
    /\ db.AcademicSession # {} /\ db.Department # {} /\ db.Faculty # {}
    /\ db.Result = {} /\ db.Enrollment = {} /\ db.Course = {} /\ db.Semester = {}

(***************************************************************************)
(* Claims about the service calls of one pipeline run.                     *)
(***************************************************************************)
\* no tool.func call of the run was made twice for the same tool call of
\* the same reply
EachToolCallOnce(c) ==
    \A i \in DOMAIN c.tool_funcs, j \in DOMAIN c.tool_funcs :
        (c.tool_funcs[i].run = c.tool_funcs[j].run
         /\ c.tool_funcs[i].tool_call = c.tool_funcs[j].tool_call) => i = j

\* C28: within one pipeline run each tool call requested by the model is
\* executed at most once and the conversational search is called at most
\* once, also when parallel execution fails or times out and the sequential
\* fallback runs.
C28_CalledAtMostOnce ==
    /\ EachToolCallOnce(service_calls)
    /\ service_calls.conversational_search <= 1

\* C28, the part that holds: each tool call of each reply of the model is
\* executed at most once, on every path.
C28_ToolCallsOnce == EachToolCallOnce(service_calls)

\* C28, the paths on which it holds: unless the sequential fallback ran to
\* its search, the conversational search is called at most once.
C28_SearchOnceWithoutFallback ==
    parallel.path # "sequential" => service_calls.conversational_search <= 1

\* C28: the sequential fallback has run after the pool: the search was
\* called twice and the same tool was run for the pool's reply and for the
\* fallback's.
C28_FallbackRepeats ==
    /\ parallel.path = "sequential"
    /\ service_calls.conversational_search = 2
    /\ \E i \in DOMAIN service_calls.tool_funcs, j \in DOMAIN service_calls.tool_funcs :
          /\ service_calls.tool_funcs[i].run = "pool"
          /\ service_calls.tool_funcs[j].run = "sequential"
          /\ service_calls.tool_funcs[i].name = service_calls.tool_funcs[j].name

(***************************************************************************)
(* Claims about the search index.                                          *)
(***************************************************************************)
\* C29: after index_document has succeeded for a document, the index
\* entries whose document_id is that document are exactly the chunks of
\* its current extracted_text; none of an earlier, longer version remains.
C29_IndexMatchesText ==
    indexed.success =>
        EntriesOf(index_entries, "doc-1") = ChunkDocuments("doc-1", doc_text)

\* C29, the part that holds: after index_document has succeeded, every
\* chunk of the current text is in the index, and no entry of the document
\* with the chunk_id of a current chunk has other content.
C29_CurrentChunksIndexed ==
    indexed.success =>
        /\ ChunkDocuments("doc-1", doc_text) \subseteq index_entries
        /\ \A e \in EntriesOf(index_entries, "doc-1") :
              e.chunk_id < Cardinality(ChunkDocuments("doc-1", doc_text))
                 => e \in ChunkDocuments("doc-1", doc_text)

\* C29: index_document has succeeded and an entry of the document has a
\* chunk_id the current text has no chunk for.
C29_StaleEntry ==
    /\ indexed.success
    /\ \E e \in EntriesOf(index_entries, "doc-1") :
          e.chunk_id >= Cardinality(ChunkDocuments("doc-1", doc_text))

====
